---- MODULE Spec2Model ----
(***************************************************************************)
(* Session scheduling and lifecycle engine of thrive_backend:              *)
(*   - the session status state machine   (sessions/session_status.py)     *)
(*   - the cascading reschedule algorithm (sessions/rescheduleSessions.py) *)
(*   - the login punctuality evaluator    (sessions/session_status.py)     *)
(*                                                                         *)
(* Dates are day numbers, day 0 being a Monday; times of day are minutes   *)
(* since midnight.  A stored time that does not parse is NoTime, a stored  *)
(* date that does not parse is NoDate.                                     *)
(***************************************************************************)
EXTENDS Integers, Sequences, FiniteSets, TLC

VARIABLES
    sessions,   \* the sessions table: id -> row
    settings,   \* therapist id -> the account settings the cascade reads
    today,      \* the current date
    cascades,   \* the number of cascade reschedule calls made
    last,       \* the last call: its arguments, its result and the table before it
    procs       \* request id -> the cascade reschedule request in flight, step by step

vars == <<sessions, settings, today, cascades, last, procs>>

(***************************************************************************)
(* Values                                                                  *)
(***************************************************************************)
SCHEDULED == "scheduled"
ONGOING   == "ongoing"
COMPLETED == "completed"
CANCELLED == "cancelled"

SESSION_STATUS == {SCHEDULED, ONGOING, COMPLETED, CANCELLED}

\* parse_time_string / parse_date_string return None on a value they cannot parse;
\* None is modelled by these two values (no time of day, no day number)
NoTime == -1
NoDate == -1

SessionIds == {1, 2, 3}
\* ids a caller may pass: the stored ones and one that is in no row
CallIds    == SessionIds \cup {0}
\* the same for the lifecycle specification, whose tables hold sessions 1 and 2
LifecycleIds == {0, 1, 2}
Therapists == {1, 2}
Children   == {1, 2}

DayNames == <<"Monday", "Tuesday", "Wednesday", "Thursday", "Friday", "Saturday", "Sunday">>

\* the number of cascade calls a behaviour of the model makes
MaxCascades == 1

Min(a, b) == IF a <= b THEN a ELSE b
Max(a, b) == IF a >= b THEN a ELSE b

(***************************************************************************)
(* Time utilities                                                          *)
(***************************************************************************)
\* date.weekday(): Monday = 0 ... Sunday = 6
Weekday(d) == d % 7

\* date.strftime("%A")
DayName(d) == DayNames[Weekday(d) + 1]

\* _parse_time_value: the time of day of a stored "HH:MM[:SS]" value, or None
ParseTimeValue(v) == IF v \in 0..1439 THEN v ELSE NoTime

\* parse_date_string: the date of a stored "YYYY-MM-DD" value, or None
ParseDateString(v) == IF v >= 0 THEN v ELSE NoDate

\* format_date_iso: the stored value of a date
FormatDateIso(d) == d

\* _shift_date_by_one: the next day, and past the weekend unless weekends are included
RECURSIVE SkipWeekend(_)
SkipWeekend(d) == IF Weekday(d) >= 5 THEN SkipWeekend(d + 1) ELSE d

ShiftDateByOne(original, include_weekends) ==
    IF include_weekends THEN original + 1 ELSE SkipWeekend(original + 1)

(***************************************************************************)
(* Constraint evaluator                                                    *)
(***************************************************************************)
Range(seq) == {seq[i] : i \in DOMAIN seq}

\* _get_working_hours_map: day name -> entry, a later entry of a day replacing an earlier one
GetWorkingHoursMap(s) ==
    LET wh == s.workingHours
        days == {wh[i].day : i \in DOMAIN wh}
        lastOf(day) == CHOOSE i \in DOMAIN wh :
                          /\ wh[i].day = day
                          /\ \A j \in DOMAIN wh : wh[j].day = day => j <= i
    IN [day \in days |-> wh[lastOf(day)]]

\* _get_free_hours
GetFreeHours(s) == s.freeHours

\* a check that also refuses a session starting or ending exactly on a bound
CheckWorkingHoursStrictBounds(target_date, session_start, session_end, working_hours_map, include_weekends) ==
    LET day_name == DayName(target_date) IN
    IF Weekday(target_date) >= 5 /\ include_weekends THEN "ok"
    ELSE IF day_name \notin DOMAIN working_hours_map
         THEN IF Weekday(target_date) >= 5 THEN "not_configured" ELSE "ok"
    ELSE LET day_schedule == working_hours_map[day_name]
             start_bound == ParseTimeValue(day_schedule.startTime)
             end_bound == ParseTimeValue(day_schedule.endTime)
         IN IF ~day_schedule.enabled THEN "not_working_day"
            ELSE IF start_bound # NoTime /\ session_start <= start_bound THEN "starts_before"
            ELSE IF end_bound # NoTime /\ session_end >= end_bound THEN "ends_after"
            ELSE "ok"

\* _check_working_hours: "ok" for None, else which message is returned
CheckWorkingHours(target_date, session_start, session_end, working_hours_map, include_weekends) ==
    LET day_name == DayName(target_date) IN
    IF Weekday(target_date) >= 5 /\ include_weekends THEN "ok"
    ELSE IF day_name \notin DOMAIN working_hours_map
         THEN IF Weekday(target_date) >= 5 THEN "not_configured" ELSE "ok"
    ELSE LET day_schedule == working_hours_map[day_name]
             start_bound == ParseTimeValue(day_schedule.startTime)
             end_bound == ParseTimeValue(day_schedule.endTime)
         IN IF ~day_schedule.enabled THEN "not_working_day"
            ELSE IF start_bound # NoTime /\ session_start < start_bound THEN "starts_before"
            ELSE IF end_bound # NoTime /\ session_end > end_bound THEN "ends_after"
            ELSE "ok"

\* _check_free_time: "ok" for None, "free_time" when a block of that weekday overlaps
CheckFreeTime(target_date, session_start, session_end, free_hours) ==
    IF \E i \in DOMAIN free_hours :
          LET block == free_hours[i]
              block_start == ParseTimeValue(block.startTime)
              block_end == ParseTimeValue(block.endTime)
          IN /\ block.day = DayName(target_date)
             /\ block_start # NoTime /\ block_end # NoTime
             /\ session_start < block_end /\ session_end > block_start
    THEN "free_time" ELSE "ok"

\* an overlap test that counts windows that only touch
SessionsOverlapTouching(existing_start, existing_end, new_start, new_end) ==
    new_start <= existing_end /\ new_end >= existing_start

\* _sessions_overlap
SessionsOverlap(existing_start, existing_end, new_start, new_end) ==
    new_start < existing_end /\ new_end > existing_start

(***************************************************************************)
(* Occupancy map: the booked intervals, as <<date, start, end>>            *)
(***************************************************************************)
\* _has_time_conflict
HasTimeConflict(occupancy, target_date, session_start, session_end) ==
    \E slot \in occupancy :
        /\ slot[1] = target_date
        /\ SessionsOverlap(slot[2], slot[3], session_start, session_end)

\* an occupancy map that does not record the slot it is given
AddToOccupancyMapForgets(occupancy, target_date, session_start, session_end) == occupancy

\* _add_to_occupancy_map
AddToOccupancyMap(occupancy, target_date, session_start, session_end) ==
    occupancy \cup {<<target_date, session_start, session_end>>}

(***************************************************************************)
(* Next-available-date search                                              *)
(***************************************************************************)
\* max_iterations of _find_next_available_date
MaxIterations == 365

\* the for loop of _find_next_available_date is run in blocks of LoopBlock iterations
LoopBlock == 20

\* a loop that shifts the candidate in its first iteration too
NextCandidateAlwaysShifts(candidate, tried_same_day, include_weekends, allow_same_day) ==
    ShiftDateByOne(candidate, include_weekends)

\* the candidate an iteration of the loop tests
NextCandidate(candidate, tried_same_day, include_weekends, allow_same_day) ==
    IF allow_same_day /\ ~tried_same_day THEN candidate
    ELSE ShiftDateByOne(candidate, include_weekends)

\* the loop without its free-time check
PassesChecksNoFreeTime(c, include_weekends, session_start, session_end, working_hours_map, free_hours, occupancy) ==
    /\ CheckWorkingHours(c, session_start, session_end, working_hours_map, include_weekends) = "ok"
    /\ ~HasTimeConflict(occupancy, c, session_start, session_end)

\* whether the loop returns candidate c: the three checks in the order of the code
PassesChecks(c, include_weekends, session_start, session_end, working_hours_map, free_hours, occupancy) ==
    /\ CheckWorkingHours(c, session_start, session_end, working_hours_map, include_weekends) = "ok"
    /\ CheckFreeTime(c, session_start, session_end, free_hours) = "ok"
    /\ ~HasTimeConflict(occupancy, c, session_start, session_end)

\* n iterations of the loop: the date returned, or NoDate and the candidate reached
RECURSIVE Iterate(_, _, _, _, _, _, _, _, _, _)
Iterate(candidate, tried_same_day, n, include_weekends, allow_same_day, session_start, session_end, working_hours_map, free_hours, occupancy) ==
    IF n = 0 THEN [date |-> NoDate, candidate |-> candidate]
    ELSE LET c == NextCandidate(candidate, tried_same_day, include_weekends, allow_same_day)
         IN IF PassesChecks(c, include_weekends, session_start, session_end, working_hours_map, free_hours, occupancy)
            THEN [date |-> c, candidate |-> c]
            ELSE Iterate(c, TRUE, n - 1, include_weekends, allow_same_day, session_start, session_end, working_hours_map, free_hours, occupancy)

\* a loop that falls back to the last candidate when its iterations are used up
RECURSIVE FindFromFallback(_, _, _, _, _, _, _, _, _, _)
FindFromFallback(candidate, tried_same_day, left, include_weekends, allow_same_day, session_start, session_end, working_hours_map, free_hours, occupancy) ==
    IF left = 0 THEN candidate
    ELSE LET n == Min(left, LoopBlock)
             r == Iterate(candidate, tried_same_day, n, include_weekends, allow_same_day, session_start, session_end, working_hours_map, free_hours, occupancy)
         IN IF r.date # NoDate THEN r.date
            ELSE FindFromFallback(r.candidate, TRUE, left - n, include_weekends, allow_same_day, session_start, session_end, working_hours_map, free_hours, occupancy)

\* the loop with `left` iterations remaining; NoDate when it ends without a date (the
\* ValueError "Unable to find a suitable date")
RECURSIVE FindFrom(_, _, _, _, _, _, _, _, _, _)
FindFrom(candidate, tried_same_day, left, include_weekends, allow_same_day, session_start, session_end, working_hours_map, free_hours, occupancy) ==
    IF left = 0 THEN NoDate
    ELSE LET n == Min(left, LoopBlock)
             r == Iterate(candidate, tried_same_day, n, include_weekends, allow_same_day, session_start, session_end, working_hours_map, free_hours, occupancy)
         IN IF r.date # NoDate THEN r.date
            ELSE FindFrom(r.candidate, TRUE, left - n, include_weekends, allow_same_day, session_start, session_end, working_hours_map, free_hours, occupancy)

\* _find_next_available_date
FindNextAvailableDate(start_from, include_weekends, allow_same_day, session_start, session_end, working_hours_map, free_hours, occupancy) ==
    FindFrom(start_from, FALSE, MaxIterations, include_weekends, allow_same_day,
             session_start, session_end, working_hours_map, free_hours, occupancy)

\* a search that books the date it found in the map it was given
FindNextAvailableDateRunRecording(start_from, include_weekends, allow_same_day, session_start, session_end, working_hours_map, free_hours, occupancy) ==
    LET found == FindNextAvailableDate(start_from, include_weekends, allow_same_day,
                                       session_start, session_end, working_hours_map,
                                       free_hours, occupancy)
    IN [date |-> found,
        occupancy |-> IF found = NoDate THEN occupancy
                      ELSE AddToOccupancyMap(occupancy, found, session_start, session_end)]

\* a run of _find_next_available_date: the date it returns and the occupancy map as the
\* run leaves it; the function and _has_time_conflict only read the map (occupancy.get)
FindNextAvailableDateRun(start_from, include_weekends, allow_same_day, session_start, session_end, working_hours_map, free_hours, occupancy) ==
    [date |-> FindNextAvailableDate(start_from, include_weekends, allow_same_day,
                                    session_start, session_end, working_hours_map,
                                    free_hours, occupancy),
     occupancy |-> occupancy]

(***************************************************************************)
(* Session record access                                                   *)
(***************************************************************************)
\* _fetch_session: the row with that id owned by that therapist, if any
FetchSession(tbl, therapist_id, session_id) ==
    {id \in DOMAIN tbl : id = session_id /\ tbl[id].therapist_id = therapist_id}

\* the query without its status filter
FetchChildSessionsAnyStatus(tbl, therapist_id, child_id, start_date) ==
    {id \in DOMAIN tbl :
        /\ tbl[id].therapist_id = therapist_id
        /\ tbl[id].child_id = child_id
        /\ tbl[id].session_date # NoDate
        /\ tbl[id].session_date >= FormatDateIso(start_date)}

\* _fetch_child_sessions: the therapist's scheduled sessions of the child from start_date on
FetchChildSessions(tbl, therapist_id, child_id, start_date) ==
    {id \in DOMAIN tbl :
        /\ tbl[id].therapist_id = therapist_id
        /\ tbl[id].child_id = child_id
        /\ tbl[id].status = SCHEDULED
        /\ tbl[id].session_date # NoDate
        /\ tbl[id].session_date >= FormatDateIso(start_date)}

\* an occupancy map built from the excluded sessions instead of the others
BuildTherapistOccupancyInverted(tbl, therapist_id, exclude_session_ids, start_date) ==
    {<<ParseDateString(tbl[id].session_date),
       ParseTimeValue(tbl[id].start_time),
       ParseTimeValue(tbl[id].end_time)>> :
        id \in {i \in DOMAIN tbl :
                  /\ tbl[i].therapist_id = therapist_id
                  /\ tbl[i].status = SCHEDULED
                  /\ tbl[i].session_date >= FormatDateIso(start_date)
                  /\ i \in exclude_session_ids
                  /\ ParseTimeValue(tbl[i].start_time) # NoTime
                  /\ ParseTimeValue(tbl[i].end_time) # NoTime}}

\* _build_therapist_occupancy
BuildTherapistOccupancy(tbl, therapist_id, exclude_session_ids, start_date) ==
    {<<ParseDateString(tbl[id].session_date),
       ParseTimeValue(tbl[id].start_time),
       ParseTimeValue(tbl[id].end_time)>> :
        id \in {i \in DOMAIN tbl :
                  /\ tbl[i].therapist_id = therapist_id
                  /\ tbl[i].status = SCHEDULED
                  /\ tbl[i].session_date # NoDate
                  /\ tbl[i].session_date >= FormatDateIso(start_date)
                  /\ i \notin exclude_session_ids
                  /\ ParseDateString(tbl[i].session_date) # NoDate
                  /\ ParseTimeValue(tbl[i].start_time) # NoTime
                  /\ ParseTimeValue(tbl[i].end_time) # NoTime}}

(***************************************************************************)
(* Cascade reschedule orchestrator                                         *)
(***************************************************************************)
\* the sort key of cascade_reschedule_sessions: (session_date or "", start_time or "", id or 0);
\* a missing value sorts first
KeyLeq(tbl, a, b) ==
    LET ka == <<tbl[a].session_date, tbl[a].start_time, a>>
        kb == <<tbl[b].session_date, tbl[b].start_time, b>>
    IN \/ ka[1] < kb[1]
       \/ ka[1] = kb[1] /\ ka[2] < kb[2]
       \/ ka[1] = kb[1] /\ ka[2] = kb[2] /\ ka[3] <= kb[3]

\* sorted(upcoming, key = ...)
RECURSIVE UpcomingSorted(_, _)
UpcomingSorted(tbl, ids) ==
    IF ids = {} THEN <<>>
    ELSE LET first == CHOOSE a \in ids : \A b \in ids : KeyLeq(tbl, a, b)
         IN <<first>> \o UpcomingSorted(tbl, ids \ {first})

\* sessions_to_reschedule: the row of session_id inserted at the front, the others appended
SessionsToReschedule(tbl, upcoming, session_id) ==
    LET sorted == UpcomingSorted(tbl, upcoming)
    IN IF session_id \in upcoming
       THEN <<session_id>> \o SelectSeq(sorted, LAMBDA id : id # session_id)
       ELSE sorted

\* a baseline that does not look at today
BaselineIgnoresToday(original_date, today_value, last_assigned_date) ==
    IF last_assigned_date # NoDate /\ last_assigned_date > original_date
    THEN last_assigned_date ELSE original_date

\* the baseline of the search for one session
Baseline(original_date, today_value, last_assigned_date) ==
    LET baseline == Max(original_date, today_value)
    IN IF last_assigned_date # NoDate /\ last_assigned_date > baseline
       THEN last_assigned_date ELSE baseline

\* allow_same_day = index != 0 (index counted from 1 here)
AllowSameDay(index) == index # 1

\* the placement loop from position `index` of the batch on: the proposed updates, or the
\* error that ends the call; c holds what the loop reads
RECURSIVE PlaceFrom(_, _, _, _, _)
PlaceFrom(index, c, occupancy, last_assigned_date, proposed_updates) ==
    IF index > Len(c.batch) THEN [outcome |-> "resolved", proposed |-> proposed_updates]
    ELSE
    LET id == c.batch[index]
        session_row == c.tbl[id]
        session_start == ParseTimeValue(session_row.start_time)
        session_end == ParseTimeValue(session_row.end_time)
        original_date == ParseDateString(session_row.session_date)
        baseline == Baseline(original_date, c.today_value, last_assigned_date)
        new_date == FindNextAvailableDate(baseline, c.include_weekends, AllowSameDay(index), session_start, session_end, c.working_hours_map, c.free_hours, occupancy)
    IN IF session_start = NoTime \/ session_end = NoTime
       THEN [outcome |-> "incomplete_timing", proposed |-> proposed_updates]
       ELSE IF session_start >= session_end
       THEN [outcome |-> "invalid_time_range", proposed |-> proposed_updates]
       ELSE IF original_date = NoDate
       THEN [outcome |-> "unparsable_date", proposed |-> proposed_updates]
       ELSE IF new_date = NoDate
       THEN [outcome |-> "no_suitable_date", proposed |-> proposed_updates]
       ELSE PlaceFrom(index + 1, c,
                      AddToOccupancyMap(occupancy, new_date, session_start, session_end),
                      new_date,
                      Append(proposed_updates,
                             [id |-> id, previous_date |-> original_date, new_date |-> new_date]))

\* the persistence loop from position k of the proposed updates on: one update by id and
\* therapist at a time, the call ending at the first update that matches no row
RECURSIVE ApplyFrom(_, _, _, _)
ApplyFrom(k, tbl, proposed_updates, therapist_id) ==
    IF k > Len(proposed_updates)
    THEN [outcome |-> "ok", tbl |-> tbl, total_updated |-> k - 1]
    ELSE LET item == proposed_updates[k]
         IN IF item.id \in DOMAIN tbl /\ tbl[item.id].therapist_id = therapist_id
            THEN ApplyFrom(k + 1,
                           [tbl EXCEPT ![item.id].session_date = FormatDateIso(item.new_date)],
                           proposed_updates, therapist_id)
            ELSE [outcome |-> "update_failed", tbl |-> tbl, total_updated |-> k - 1]

\* a persistence that writes the dates resolved so far even when the placement loop failed
ApplyUpdatesEagerly(tbl, placed, therapist_id) ==
    LET applied == ApplyFrom(1, tbl, placed.proposed, therapist_id)
    IN IF placed.outcome # "resolved"
       THEN [outcome |-> placed.outcome, tbl |-> applied.tbl, total_updated |-> 0]
       ELSE applied

\* "Apply updates sequentially": the persistence loop starts once the placement loop has
\* resolved every session; an error of the placement loop ends the call before it
ApplyUpdates(tbl, placed, therapist_id) ==
    IF placed.outcome # "resolved"
    THEN [outcome |-> placed.outcome, tbl |-> tbl, total_updated |-> 0]
    ELSE ApplyFrom(1, tbl, placed.proposed, therapist_id)

\* cascade_reschedule_sessions on table tbl: its outcome, the batch in processing order,
\* the proposed updates and the table it leaves
CascadeRescheduleSessions(tbl, stg, today_value, session_id, therapist_id, include_weekends) ==
    LET failed(why) == [outcome |-> why, batch |-> <<>>, proposed |-> <<>>,
                        tbl |-> tbl, total_updated |-> 0]
        target == FetchSession(tbl, therapist_id, session_id)
    IN
    IF target = {} THEN failed("not_found")
    ELSE IF ParseDateString(tbl[session_id].session_date) = NoDate THEN failed("invalid_date")
    ELSE
    LET target_date == ParseDateString(tbl[session_id].session_date)
        child_id == tbl[session_id].child_id
        fetch_start_date == Min(target_date, today_value)
        upcoming == FetchChildSessions(tbl, therapist_id, child_id, fetch_start_date)
        batch == SessionsToReschedule(tbl, upcoming, session_id)
        occupancy == BuildTherapistOccupancy(tbl, therapist_id, Range(batch),
                                             Min(fetch_start_date, today_value))
        c == [tbl |-> tbl, batch |-> batch, include_weekends |-> include_weekends,
              working_hours_map |-> GetWorkingHoursMap(stg[therapist_id]),
              free_hours |-> GetFreeHours(stg[therapist_id]),
              today_value |-> today_value]
        placed == PlaceFrom(1, c, occupancy, NoDate, <<>>)
        applied == ApplyUpdates(tbl, placed, therapist_id)
    IN
    IF upcoming = {} THEN failed("no_upcoming")
    ELSE [outcome |-> applied.outcome, batch |-> batch, proposed |-> placed.proposed,
          tbl |-> applied.tbl, total_updated |-> applied.total_updated]

(***************************************************************************)
(* Session status state machine                                            *)
(***************************************************************************)
\* therapist_notes = None
NoNotes == "None"

\* a transition table that lets a scheduled session be completed without having started
ValidTransitionsSkipOngoing(current_status) ==
    IF current_status = SCHEDULED THEN {ONGOING, CANCELLED, COMPLETED}
    ELSE IF current_status = ONGOING THEN {COMPLETED, CANCELLED}
    ELSE {}

\* a transition table that lets a cancelled session be scheduled again
ValidTransitionsReopen(current_status) ==
    IF current_status = SCHEDULED THEN {ONGOING, CANCELLED}
    ELSE IF current_status = ONGOING THEN {COMPLETED, CANCELLED}
    ELSE IF current_status = CANCELLED THEN {SCHEDULED}
    ELSE {}

\* valid_transitions of _validate_status_transition
ValidTransitions(current_status) ==
    IF current_status = SCHEDULED THEN {ONGOING, CANCELLED}
    ELSE IF current_status = ONGOING THEN {COMPLETED, CANCELLED}
    ELSE {}

\* _validate_status_transition
ValidateStatusTransition(current_status, new_status) ==
    new_status \in ValidTransitions(current_status)

\* _get_session_details: the row with that id, if any
GetSessionDetails(tbl, session_id) == {id \in DOMAIN tbl : id = session_id}

\* the rows the update of update_session_status is applied to: .eq('id', session_id)
StatusUpdateRows(tbl, session_id, therapist_id) == {id \in DOMAIN tbl : id = session_id}

\* update_session_status: "not_found" is the None result, "error" the exception raised
UpdateSessionStatus(tbl, session_id, new_status, therapist_id) ==
    LET unchanged(why, prev) == [outcome |-> why, tbl |-> tbl,
                                 previous_status |-> prev, current_status |-> prev]
    IN
    IF GetSessionDetails(tbl, session_id) = {} THEN unchanged("not_found", "")
    ELSE LET current_status == tbl[session_id].status
             rows == StatusUpdateRows(tbl, session_id, therapist_id)
         IN IF ~ValidateStatusTransition(current_status, new_status)
            THEN unchanged("error", current_status)
            ELSE IF rows = {} THEN unchanged("not_found", current_status)
            ELSE [outcome |-> "ok",
                  tbl |-> [id \in DOMAIN tbl |->
                             IF id \in rows THEN [tbl[id] EXCEPT !.status = new_status]
                             ELSE tbl[id]],
                  previous_status |-> current_status,
                  current_status |-> new_status]

\* start_session
StartSession(tbl, session_id, therapist_id) ==
    UpdateSessionStatus(tbl, session_id, ONGOING, therapist_id)

\* cancel_session
CancelSession(tbl, session_id, therapist_id) ==
    UpdateSessionStatus(tbl, session_id, CANCELLED, therapist_id)

\* an assessment hook that lets its exception through
UpdateAssessmentDetailsForChildRaising(hook_raises) ==
    IF hook_raises THEN "raised" ELSE "returned"

\* _update_assessment_details_for_child, hook_raises telling whether its body fails: the
\* body is one try block whose except clause logs and does not raise
UpdateAssessmentDetailsForChild(hook_raises) == "returned"

\* a completion that stores the notes whether or not the transition succeeded
CompleteSessionNotesAnyway(tbl, session_id, therapist_id, therapist_notes, hook_raises) ==
    LET result == UpdateSessionStatus(tbl, session_id, COMPLETED, therapist_id)
        noted == IF session_id \in DOMAIN result.tbl /\ therapist_notes # NoNotes
                 THEN [result.tbl EXCEPT ![session_id].therapist_notes = therapist_notes]
                 ELSE result.tbl
    IN [outcome |-> result.outcome, tbl |-> noted,
        previous_status |-> result.previous_status,
        current_status |-> result.current_status,
        hook_invoked |-> (result.outcome = "ok")]

\* complete_session: the transition, then the notes when given, then the assessment hook;
\* an exception reaching complete_session is raised again
CompleteSession(tbl, session_id, therapist_id, therapist_notes, hook_raises) ==
    LET result == UpdateSessionStatus(tbl, session_id, COMPLETED, therapist_id)
        noted == IF result.outcome = "ok" /\ therapist_notes # NoNotes
                 THEN [result.tbl EXCEPT ![session_id].therapist_notes = therapist_notes]
                 ELSE result.tbl
        hook == IF result.outcome = "ok" THEN UpdateAssessmentDetailsForChild(hook_raises)
                ELSE "not_called"
    IN [outcome |-> IF hook = "raised" THEN "error" ELSE result.outcome,
        tbl |-> noted,
        previous_status |-> result.previous_status,
        current_status |-> result.current_status,
        hook_invoked |-> (result.outcome = "ok")]

(***************************************************************************)
(* Boundary layer: the status endpoints of app.py                          *)
(***************************************************************************)
\* a readiness check that looks at the date only
CheckSessionReadyForStartDateOnly(tbl, today_value, session_id, therapist_id) ==
    IF FetchSession(tbl, therapist_id, session_id) = {}
    THEN [exists |-> FALSE, requires_reschedule |-> FALSE, reason |-> "", upcoming |-> {}]
    ELSE LET session_date_value == ParseDateString(tbl[session_id].session_date)
         IN IF session_date_value = today_value
            THEN [exists |-> TRUE, requires_reschedule |-> FALSE, reason |-> "", upcoming |-> {}]
            ELSE [exists |-> TRUE, requires_reschedule |-> TRUE, reason |-> "date",
                  upcoming |-> FetchChildSessions(tbl, therapist_id, tbl[session_id].child_id,
                                                  today_value)]

\* check_session_ready_for_start: whether the row exists for the therapist, whether it has
\* to be rescheduled first and why, and the upcoming sessions the payload carries
CheckSessionReadyForStart(tbl, today_value, session_id, therapist_id) ==
    IF FetchSession(tbl, therapist_id, session_id) = {}
    THEN [exists |-> FALSE, requires_reschedule |-> FALSE, reason |-> "", upcoming |-> {}]
    ELSE
    LET session_row == tbl[session_id]
        child_id == session_row.child_id
        session_date_value == ParseDateString(session_row.session_date)
        session_start == ParseTimeValue(session_row.start_time)
        session_end == ParseTimeValue(session_row.end_time)
        reschedule(reason, start_date) ==
            [exists |-> TRUE, requires_reschedule |-> TRUE, reason |-> reason,
             upcoming |-> FetchChildSessions(tbl, therapist_id, child_id, start_date)]
    IN IF session_date_value = NoDate THEN reschedule("date_invalid", today_value)
       ELSE IF session_date_value > today_value THEN reschedule("future_date", session_date_value)
       ELSE IF session_date_value < today_value
            THEN reschedule("date_passed", Min(session_date_value, today_value))
       ELSE IF session_start = NoTime \/ session_end = NoTime
            THEN reschedule("timing_incomplete", session_date_value)
       ELSE IF session_start >= session_end
            THEN reschedule("invalid_time_range", session_date_value)
       ELSE [exists |-> TRUE, requires_reschedule |-> FALSE, reason |-> "", upcoming |-> {}]

\* the response of an endpoint: the HTTP status, the code of the detail, and the rest
Response(http, code, r) ==
    [http |-> http, code |-> code, upcoming |-> {}, tbl |-> r.tbl, outcome |-> r.outcome,
     previous_status |-> r.previous_status, current_status |-> r.current_status]

\* update_session_status_endpoint: the HTTPException(404) of a None result is raised inside
\* the try block and, like the Exception of update_session_status, caught by
\* `except Exception`; no ValueError leaves update_session_status
UpdateSessionStatusEndpoint(tbl, session_id, new_status, therapist_id) ==
    LET r == UpdateSessionStatus(tbl, session_id, new_status, therapist_id)
    IN IF r.outcome = "ok" THEN Response(200, "", r)
       ELSE Response(500, "Failed to update session status", r)

\* start_session_endpoint: readiness first, then start_session; `except HTTPException: raise`
\* lets the 404 and the 409 through
StartSessionEndpoint(tbl, today_value, session_id, therapist_id) ==
    LET validation == CheckSessionReadyForStart(tbl, today_value, session_id, therapist_id)
        untouched == [tbl |-> tbl, outcome |-> "not_called", previous_status |-> "",
                      current_status |-> ""]
        r == StartSession(tbl, session_id, therapist_id)
    IN IF ~validation.exists THEN Response(404, "Session not found", untouched)
       ELSE IF validation.requires_reschedule
            THEN [Response(409, "SESSION_NEEDS_RESCHEDULE", untouched)
                     EXCEPT !.upcoming = validation.upcoming, !.outcome = validation.reason]
       ELSE IF r.outcome = "ok" THEN Response(200, "", r)
       ELSE IF r.outcome = "not_found" THEN Response(404, "Session not found or cannot be started", r)
       ELSE Response(500, "Failed to start session", r)

\* complete_session_endpoint: its only handler is `except Exception`, which also catches the
\* HTTPException(404) raised inside the try block
CompleteSessionEndpoint(tbl, session_id, therapist_id, therapist_notes, hook_raises) ==
    LET r == CompleteSession(tbl, session_id, therapist_id, therapist_notes, hook_raises)
    IN IF r.outcome = "ok" THEN Response(200, "", r)
       ELSE Response(500, "Failed to complete session", r)

\* cancel_session_endpoint: as complete_session_endpoint
CancelSessionEndpoint(tbl, session_id, therapist_id) ==
    LET r == CancelSession(tbl, session_id, therapist_id)
    IN IF r.outcome = "ok" THEN Response(200, "", r)
       ELSE Response(500, "Failed to cancel session", r)

\* a field of SessionUpdate that is not given (None)
NoStatus == "None"

\* update_session of sessions.py: every given field of session_data is written to the row
\* with that id owned by that therapist; no field is validated (the requests modelled
\* here give a date, a status, both or neither)
UpdateSession(tbl, session_id, therapist_id, session_data) ==
    IF FetchSession(tbl, therapist_id, session_id) = {}
    THEN [outcome |-> "not_found", tbl |-> tbl]
    ELSE LET row == tbl[session_id]
             dated == IF session_data.session_date # NoDate
                      THEN [row EXCEPT !.session_date = FormatDateIso(session_data.session_date)]
                      ELSE row
             updated == IF session_data.status # NoStatus
                        THEN [dated EXCEPT !.status = session_data.status]
                        ELSE dated
         IN [outcome |-> "ok", tbl |-> [tbl EXCEPT ![session_id] = updated]]

(***************************************************************************)
(* Punctuality evaluator and automatic updates                             *)
(***************************************************************************)
\* the clock of session_status.py is read in seconds since midnight; stored times of day
\* are minutes since midnight
SecondsOf(minutes) == 60 * minutes

\* _parse_time_string of session_status.py, in seconds: the current time when the value does
\* not parse
ParseTimeString(v, now) == IF v \in 0..1439 THEN SecondsOf(v) ELSE now

\* a difference in minutes rounded up
WholeMinutesRoundedUp(seconds) == (seconds + 59) \div 60

\* int(total_seconds / 60) of a non-negative difference
WholeMinutes(seconds) == seconds \div 60

\* a comparison that counts a login at the start of the session as late
IsLateOrOnTime(now, session_start) == now >= session_start

\* Scenario A of check_sessions_on_login: current_datetime > session_start_datetime
IsLate(now, session_start) == now > session_start

\* the rows check_sessions_on_login reads: the therapist's sessions of the current date
TodaysSessions(tbl, therapist_id, current_date) ==
    {id \in DOMAIN tbl : /\ tbl[id].session_date = FormatDateIso(current_date)
                          /\ tbl[id].therapist_id = therapist_id}

\* result.data[0] under .order('start_time'): a row with the least start_time; the store
\* fixes no order among rows of equal start_time
FirstSessions(tbl, ids) ==
    {id \in ids : \A other \in ids : tbl[id].start_time <= tbl[other].start_time}

\* check_sessions_on_login, first_session being the row the store returned first
CheckSessionsOnLogin(tbl, therapist_id, current_date, now, first_session) ==
    LET none == [success |-> TRUE, notification_type |-> "none", minutes |-> 0,
                 sessions_updated |-> 0, first_session |-> 0, tbl |-> tbl]
    IN
    IF TodaysSessions(tbl, therapist_id, current_date) = {} THEN none
    ELSE
    LET session_start == ParseTimeString(tbl[first_session].start_time, now)
        update == UpdateSessionStatus(tbl, first_session, ONGOING, therapist_id)
    IN IF IsLate(now, session_start)
       THEN IF tbl[first_session].status = SCHEDULED
            THEN IF update.outcome = "error"
                 THEN [none EXCEPT !.success = FALSE]
                 ELSE [success |-> TRUE, notification_type |-> "late",
                       minutes |-> WholeMinutes(now - session_start), sessions_updated |-> 1,
                       first_session |-> first_session, tbl |-> update.tbl]
            ELSE [success |-> TRUE, notification_type |-> "late",
                  minutes |-> WholeMinutes(now - session_start), sessions_updated |-> 0,
                  first_session |-> first_session, tbl |-> tbl]
       ELSE [success |-> TRUE, notification_type |-> "upcoming",
             minutes |-> WholeMinutes(session_start - now), sessions_updated |-> 0,
             first_session |-> first_session, tbl |-> tbl]

\* suggested_action of get_sessions_needing_status_update for one row of the current date
SuggestedAction(row, now) ==
    IF row.status = SCHEDULED /\ now >= ParseTimeString(row.start_time, now) THEN "start"
    ELSE IF row.status = ONGOING /\ now >= ParseTimeString(row.end_time, now) THEN "complete"
    ELSE "none"

\* auto_update_session_statuses: every session of the current date that is due is started
\* or completed through the state machine; an exception of one session is logged and skipped
AutoUpdateSessionStatuses(tbl, current_date, now) ==
    [id \in DOMAIN tbl |->
        IF tbl[id].session_date # FormatDateIso(current_date) THEN tbl[id]
        ELSE IF SuggestedAction(tbl[id], now) = "start"
             THEN StartSession(tbl, id, 0).tbl[id]
        ELSE IF SuggestedAction(tbl[id], now) = "complete"
             THEN CompleteSession(tbl, id, 0, NoNotes, FALSE).tbl[id]
        ELSE tbl[id]]

\* get_current_utc_datetime: datetime.now(timezone.utc), a datetime that carries a timezone
GetCurrentUtcDatetime(now) == [seconds |-> now, aware |-> TRUE]

\* _combine_datetime: datetime.combine(session_date, session_time) of a date and a time
\* without timezone, a datetime that carries none
CombineDatetime(session_time) == [seconds |-> session_time, aware |-> FALSE]

\* a > b of two datetimes: Python raises TypeError when only one of them carries a timezone
DatetimeGreater(a, b) ==
    IF a.aware # b.aware THEN "TypeError"
    ELSE IF a.seconds > b.seconds THEN "True" ELSE "False"

\* the rows of the query of schedule_session_notifications_for_day, ordered by start_time
\* (and by id among equal start times)
TodaysSessionsInOrder(tbl, therapist_id, current_date) ==
    LET ids == TodaysSessions(tbl, therapist_id, current_date)
        before(a, b) == \/ tbl[a].start_time < tbl[b].start_time
                        \/ tbl[a].start_time = tbl[b].start_time /\ a < b
        rank(id) == Cardinality({other \in ids : before(other, id)})
    IN [i \in 1..Cardinality(ids) |-> CHOOSE id \in ids : rank(id) = i - 1]

\* the loop that looks for the next upcoming session from row i on: the id found, 0 when
\* there is none, or "TypeError" when the comparison raised
RECURSIVE NextUpcomingSession(_, _, _, _)
NextUpcomingSession(tbl, rows, i, now) ==
    IF i > Len(rows) THEN [raised |-> FALSE, id |-> 0]
    ELSE LET session == tbl[rows[i]]
             session_start_datetime == CombineDatetime(ParseTimeString(session.start_time, now))
             later == DatetimeGreater(session_start_datetime, GetCurrentUtcDatetime(now))
         IN IF later = "TypeError" THEN [raised |-> TRUE, id |-> 0]
            ELSE IF later = "True" /\ session.status = SCHEDULED
                 THEN [raised |-> FALSE, id |-> rows[i]]
            ELSE NextUpcomingSession(tbl, rows, i + 1, now)

\* schedule_session_notifications_for_day: `recorded` is what the call stores in
\* SCHEDULED_NOTIFICATIONS; every exception is caught and reported as success False
ScheduleSessionNotificationsForDay(tbl, therapist_id, current_date, now) ==
    LET rows == TodaysSessionsInOrder(tbl, therapist_id, current_date)
        next == NextUpcomingSession(tbl, rows, 1, now)
        start == ParseTimeString(tbl[next.id].start_time, now)
    IN IF Len(rows) = 0
       THEN [success |-> TRUE, scheduled_count |-> 0, recorded |-> {}]
       ELSE IF next.raised
       THEN [success |-> FALSE, scheduled_count |-> 0, recorded |-> {}]
       ELSE IF next.id # 0 /\ start - now > 5 * 60
       THEN [success |-> TRUE, scheduled_count |-> 1,
             recorded |-> {[session_id |-> next.id, notification_time |-> start - 5 * 60]}]
       ELSE [success |-> TRUE, scheduled_count |-> 0, recorded |-> {}]

(***************************************************************************)
(* State                                                                   *)
(***************************************************************************)
Row(therapist_id, child_id, session_date, window, status) ==
    [therapist_id |-> therapist_id, child_id |-> child_id, session_date |-> session_date,
     start_time |-> window[1], end_time |-> window[2], status |-> status,
     therapist_notes |-> NoNotes]

Entry(day, enabled, startTime, endTime) ==
    [day |-> day, enabled |-> enabled, startTime |-> startTime, endTime |-> endTime]

\* a therapist without a settings row: settings or {}
NoSettings == [workingHours |-> <<>>, freeHours |-> <<>>]

\* only Monday 09:00-17:00 configured
MondayOnly == [workingHours |-> <<Entry("Monday", TRUE, 540, 1020)>>, freeHours |-> <<>>]

\* Tuesday listed twice (the later entry, disabled, counts), Wednesday opening at 10:15,
\* a free-time block on Thursday 10:00-10:30 and one whose times do not parse, Friday
\* closing at 10:20, Saturday enabled
MixedWeek ==
    [workingHours |-> <<Entry("Monday", TRUE, 540, 1020), Entry("Tuesday", TRUE, 540, 1020),
                        Entry("Tuesday", FALSE, 540, 1020), Entry("Wednesday", TRUE, 615, 1020),
                        Entry("Friday", TRUE, NoTime, 620), Entry("Saturday", TRUE, 540, 1020)>>,
     freeHours |-> <<[day |-> "Thursday", startTime |-> 600, endTime |-> 630, purpose |-> "Lunch"],
                     [day |-> "Monday", startTime |-> NoTime, endTime |-> 660, purpose |-> ""]>>]

\* no weekday enabled
NoWorkingDay ==
    [workingHours |-> <<Entry("Monday", FALSE, 540, 1020), Entry("Tuesday", FALSE, 540, 1020),
                        Entry("Wednesday", FALSE, 540, 1020), Entry("Thursday", FALSE, 540, 1020),
                        Entry("Friday", FALSE, 540, 1020)>>,
     freeHours |-> <<>>]

SettingsChoices == {NoSettings, MondayOnly, MixedWeek, NoWorkingDay}

\* the record of a call, before any call
NoCall(tbl) ==
    [op |-> "none", session_id |-> 0, therapist_id |-> 0, new_status |-> "",
     include_weekends |-> FALSE, therapist_notes |-> NoNotes, now |-> 0,
     outcome |-> "", previous_status |-> "", current_status |-> "",
     hook_invoked |-> FALSE, hook_raised |-> FALSE,
     notification_type |-> "none", minutes |-> 0, sessions_updated |-> 0, first_session |-> 0,
     batch |-> <<>>, proposed |-> <<>>, total_updated |-> 0, today_value |-> 0,
     http |-> 0, code |-> "", upcoming |-> {},
     pre |-> tbl]

\* the requests that may be in flight at once
Procs == {1, 2}

\* a request that has not been received yet
IdleProc ==
    [pc |-> "idle", session_id |-> 0, therapist_id |-> 0, include_weekends |-> FALSE,
     proposed |-> <<>>, k |-> 1, outcome |-> "", written |-> <<>>, after |-> {}]

\* the tables of the lifecycle specification: two sessions of learner 1 on Monday 7, the
\* second one therapist 1's or therapist 2's, starting with the first one or after it
LifecycleTables ==
    {[id \in {1, 2} |->
        IF id = 1 THEN Row(1, 1, 7, <<600, 630>>, SCHEDULED)
        ELSE Row(t2, 1, 7, w2, SCHEDULED)] :
      t2 \in Therapists, w2 \in {<<630, 660>>, <<600, 660>>}}

Init ==
    /\ sessions \in LifecycleTables
    /\ settings = [t \in Therapists |-> NoSettings]
    /\ today = 7
    /\ cascades = 0
    /\ last = NoCall(sessions)
    /\ procs = [p \in Procs |-> IdleProc]

\* the tables of the cascade specification: sessions 1 and 2 are therapist 1's sessions of
\* learner 1; session 3 is another session of that learner, a session of another learner, or
\* another therapist's session.  Day 7 is a Monday.
CascadeTablesOf(dates3, owners3) ==
    {[id \in SessionIds |->
        IF id = 1 THEN Row(1, 1, d[1], w1, st[1])
        ELSE IF id = 2 THEN Row(1, 1, d[2], w2, SCHEDULED)
        ELSE Row(o3[1], o3[2], d[3], <<600, 660>>, st[2])] :
      d \in {7, 8} \X {7, 8} \X dates3,
      w1 \in {<<600, 630>>, <<630, 600>>},
      w2 \in {<<600, 630>>, <<630, 660>>, <<NoTime, 630>>},
      st \in {SCHEDULED, CANCELLED} \X {SCHEDULED, ONGOING},
      o3 \in owners3}

CascadeTables(s) ==
    IF s = NoWorkingDay THEN CascadeTablesOf({8}, {<<1, 2>>})
    ELSE CascadeTablesOf({8, 9}, {<<1, 1>>, <<1, 2>>, <<2, 1>>})

InitCascade ==
    /\ settings \in {[t \in Therapists |-> IF t = 1 THEN s ELSE NoSettings] : s \in SettingsChoices}
    /\ sessions \in CascadeTables(settings[1])
    /\ today \in {6, 8}
    /\ cascades = 0
    /\ last = NoCall(sessions)
    /\ procs = [p \in Procs |-> IdleProc]

(***************************************************************************)
(* Operations                                                              *)
(***************************************************************************)
\* the clock readings of the calls that read the time of day, in seconds since midnight:
\* 09:39:59, 10:00:00, 10:00:30 and 10:15:00
ClockTimes == {34799, 36000, 36030, 36900}

NotesChoices == {NoNotes, "notes"}

Called(op, session_id, therapist_id) ==
    [NoCall(sessions) EXCEPT !.op = op, !.session_id = session_id, !.therapist_id = therapist_id]

StatusResult(call, r) ==
    [call EXCEPT !.outcome = r.outcome, !.previous_status = r.previous_status,
                 !.current_status = r.current_status]

\* PUT /api/sessions/{id}/status -> update_session_status
UpdateSessionStatusCall(session_id, new_status, therapist_id) ==
    LET r == UpdateSessionStatus(sessions, session_id, new_status, therapist_id)
    IN /\ sessions' = r.tbl
       /\ last' = StatusResult([Called("update_session_status", session_id, therapist_id)
                                   EXCEPT !.new_status = new_status], r)
       /\ UNCHANGED <<settings, today, cascades, procs>>

\* start_session
StartSessionCall(session_id, therapist_id) ==
    LET r == StartSession(sessions, session_id, therapist_id)
    IN /\ sessions' = r.tbl
       /\ last' = StatusResult([Called("start_session", session_id, therapist_id)
                                   EXCEPT !.new_status = ONGOING], r)
       /\ UNCHANGED <<settings, today, cascades, procs>>

\* cancel_session
CancelSessionCall(session_id, therapist_id) ==
    LET r == CancelSession(sessions, session_id, therapist_id)
    IN /\ sessions' = r.tbl
       /\ last' = StatusResult([Called("cancel_session", session_id, therapist_id)
                                   EXCEPT !.new_status = CANCELLED], r)
       /\ UNCHANGED <<settings, today, cascades, procs>>

\* complete_session; hook_raises: the assessment hook fails inside its try block
CompleteSessionCall(session_id, therapist_id, therapist_notes, hook_raises) ==
    LET r == CompleteSession(sessions, session_id, therapist_id, therapist_notes, hook_raises)
    IN /\ sessions' = r.tbl
       /\ last' = StatusResult([Called("complete_session", session_id, therapist_id)
                                   EXCEPT !.new_status = COMPLETED,
                                          !.therapist_notes = therapist_notes,
                                          !.hook_invoked = r.hook_invoked,
                                          !.hook_raised = r.hook_invoked /\ hook_raises], r)
       /\ UNCHANGED <<settings, today, cascades, procs>>

\* check_sessions_on_login
CheckSessionsOnLoginCall(therapist_id, now) ==
    LET ids == TodaysSessions(sessions, therapist_id, today)
    IN \E first_session \in (IF ids = {} THEN {0} ELSE FirstSessions(sessions, ids)) :
        LET r == CheckSessionsOnLogin(sessions, therapist_id, today, now, first_session)
        IN /\ sessions' = r.tbl
           /\ last' = [Called("check_sessions_on_login", 0, therapist_id)
                          EXCEPT !.now = now,
                                 !.outcome = IF r.success THEN "ok" ELSE "error",
                                 !.notification_type = r.notification_type,
                                 !.minutes = r.minutes,
                                 !.sessions_updated = r.sessions_updated,
                                 !.first_session = r.first_session]
           /\ UNCHANGED <<settings, today, cascades, procs>>

\* auto_update_session_statuses
AutoUpdateSessionStatusesCall(now) ==
    /\ sessions' = AutoUpdateSessionStatuses(sessions, today, now)
    /\ last' = [Called("auto_update_session_statuses", 0, 0)
                   EXCEPT !.now = now, !.outcome = "ok",
                          !.sessions_updated =
                              Cardinality({id \in DOMAIN sessions :
                                  /\ sessions[id].session_date = FormatDateIso(today)
                                  /\ SuggestedAction(sessions[id], now) # "none"})]
    /\ UNCHANGED <<settings, today, cascades, procs>>

\* POST /api/sessions/{id}/reschedule/cascade -> cascade_reschedule_sessions
CascadeRescheduleSessionsCall(session_id, therapist_id, include_weekends) ==
    LET r == CascadeRescheduleSessions(sessions, settings, today, session_id, therapist_id, include_weekends)
    IN /\ cascades < MaxCascades
       /\ cascades' = cascades + 1
       /\ sessions' = r.tbl
       /\ last' = [Called("cascade_reschedule_sessions", session_id, therapist_id)
                      EXCEPT !.include_weekends = include_weekends,
                             !.outcome = r.outcome, !.batch = r.batch,
                             !.proposed = r.proposed, !.total_updated = r.total_updated,
                             !.today_value = today]
       /\ UNCHANGED <<settings, today, procs>>

Next ==
    \/ \E id \in LifecycleIds, st \in SESSION_STATUS, t \in Therapists : UpdateSessionStatusCall(id, st, t)
    \/ \E id \in LifecycleIds, t \in Therapists : StartSessionCall(id, t)
    \/ \E id \in LifecycleIds, t \in Therapists : CancelSessionCall(id, t)
    \/ \E id \in LifecycleIds, t \in Therapists, n \in NotesChoices, h \in BOOLEAN : CompleteSessionCall(id, t, n, h)
    \/ \E t \in Therapists, now \in ClockTimes : CheckSessionsOnLoginCall(t, now)
    \/ \E now \in ClockTimes : AutoUpdateSessionStatusesCall(now)
    \/ \E id \in LifecycleIds, t \in Therapists, w \in BOOLEAN : CascadeRescheduleSessionsCall(id, t, w)

Spec == Init /\ [][Next]_vars

\* one cascade call on each table of the cascade specification
NextCascade ==
    \E id \in CallIds, t \in Therapists, w \in BOOLEAN :
        cascades = 0 /\ CascadeRescheduleSessionsCall(id, t, w)

SpecCascade == InitCascade /\ [][NextCascade]_vars

(***************************************************************************)
(* Concurrent requests on the shared store                                 *)
(*                                                                         *)
(* The sessions table lives in a remote store that several server          *)
(* processes and clients reach.  A cascade request reads its snapshot      *)
(* (anchor, batch, settings, occupancy) and resolves its placements, then  *)
(* sends one update per proposed date; requests of other processes may be  *)
(* served between any two of these updates.  The reads of one request are  *)
(* taken as one step.                                                      *)
(***************************************************************************)
\* the number of rows a behaviour of the concurrent specification deletes
MaxDeletes == 1

\* delete_session: the rows deleted, those with that id owned by that therapist
DeleteSession(tbl, session_id, therapist_id) ==
    [id \in DOMAIN tbl \ FetchSession(tbl, therapist_id, session_id) |-> tbl[id]]

\* the request after its reads and its placement loop, on the table it read
ReceiveCascade(tbl, stg, today_value, session_id, therapist_id, include_weekends) ==
    LET r == CascadeRescheduleSessions(tbl, stg, today_value, session_id, therapist_id, include_weekends)
        resolved == r.outcome = "ok"
    IN [pc |-> IF resolved THEN "persist" ELSE "done",
        session_id |-> session_id, therapist_id |-> therapist_id,
        include_weekends |-> include_weekends,
        proposed |-> r.proposed, k |-> 1,
        outcome |-> IF resolved THEN "" ELSE r.outcome,
        written |-> <<>>, after |-> {}]

\* a persistence loop that goes on to the next update when one matched no row
PersistStepSkipping(tbl, proc) ==
    LET item == proc.proposed[proc.k]
        finished == proc.k = Len(proc.proposed)
        matched == item.id \in DOMAIN tbl /\ tbl[item.id].therapist_id = proc.therapist_id
    IN [tbl |-> IF matched
                THEN [tbl EXCEPT ![item.id].session_date = FormatDateIso(item.new_date)]
                ELSE tbl,
        proc |-> [proc EXCEPT !.k = proc.k + 1,
                              !.written = IF matched THEN Append(proc.written, item.id)
                                          ELSE proc.written,
                              !.pc = IF finished THEN "done" ELSE "persist",
                              !.outcome = IF finished THEN "ok" ELSE ""]]

\* one pass of the persistence loop, for the k-th proposed update: the update by id and
\* therapist; the ValueError "Failed to update session" when it matched no row
PersistStep(tbl, proc) ==
    LET item == proc.proposed[proc.k]
        finished == proc.k = Len(proc.proposed)
    IN IF item.id \in DOMAIN tbl /\ tbl[item.id].therapist_id = proc.therapist_id
       THEN [tbl |-> [tbl EXCEPT ![item.id].session_date = FormatDateIso(item.new_date)],
             proc |-> [proc EXCEPT !.k = proc.k + 1,
                                   !.written = Append(proc.written, item.id),
                                   !.pc = IF finished THEN "done" ELSE "persist",
                                   !.outcome = IF finished THEN "ok" ELSE ""]]
       ELSE [tbl |-> tbl,
             proc |-> [proc EXCEPT !.pc = "done", !.outcome = "update_failed"]]

\* the tables of the concurrent specification: therapist 1's sessions 1 (Monday 7) and 2
\* (Tuesday 8) of learner 1 at 10:00-10:30, and a session 3 of learner 1 or 2 at 10:00-11:00
ConcurrentTables ==
    {[id \in SessionIds |->
        IF id = 1 THEN Row(1, 1, 7, <<600, 630>>, SCHEDULED)
        ELSE IF id = 2 THEN Row(1, 1, 8, <<600, 630>>, SCHEDULED)
        ELSE Row(1, c3, d3, <<600, 660>>, SCHEDULED)] :
      c3 \in Children, d3 \in {7, 9}}

InitConcurrent ==
    /\ sessions \in ConcurrentTables
    /\ settings = [t \in Therapists |-> NoSettings]
    /\ today = 6
    /\ cascades = 0
    /\ last = NoCall(sessions)
    /\ procs = [p \in Procs |-> IdleProc]

\* a server process receives a cascade request, reads and resolves the placements; `after`
\* notes the requests that had ended before it was received
ReceiveCascadeStep(p, session_id, therapist_id, include_weekends) ==
    /\ procs[p].pc = "idle"
    /\ procs' = [procs EXCEPT ![p] =
                    [ReceiveCascade(sessions, settings, today, session_id, therapist_id, include_weekends)
                        EXCEPT !.after = {q \in Procs : procs[q].pc = "done"}]]
    /\ UNCHANGED <<sessions, settings, today, cascades, last>>

\* the process sends the next update of its persistence loop
PersistNextStep(p) ==
    LET r == PersistStep(sessions, procs[p])
    IN /\ procs[p].pc = "persist"
       /\ sessions' = r.tbl
       /\ procs' = [procs EXCEPT ![p] = r.proc]
       /\ UNCHANGED <<settings, today, cascades, last>>

\* DELETE /api/sessions/{id} -> delete_session, served between the steps of the cascades
DeleteSessionCall(session_id, therapist_id) ==
    /\ Cardinality(SessionIds \ DOMAIN sessions) < MaxDeletes
    /\ FetchSession(sessions, therapist_id, session_id) # {}
    /\ sessions' = DeleteSession(sessions, session_id, therapist_id)
    /\ UNCHANGED <<settings, today, cascades, last, procs>>

NextConcurrent ==
    \/ \E p \in Procs, id \in SessionIds, t \in Therapists, w \in BOOLEAN : ReceiveCascadeStep(p, id, t, w)
    \/ \E p \in Procs : PersistNextStep(p)
    \/ \E id \in SessionIds, t \in Therapists : DeleteSessionCall(id, t)

SpecConcurrent == InitConcurrent /\ [][NextConcurrent]_vars

(***************************************************************************)
(* Requests to the boundary layer                                          *)
(***************************************************************************)
\* the tables of the boundary specification: session 1 of therapist 1 yesterday, today
\* (day 7) or tomorrow, with a window that is fine, reversed or without a start; session 2
\* of the same therapist and learner today; therapist 2 owns no session
BoundaryTables ==
    {[id \in {1, 2} |->
        IF id = 1 THEN Row(1, 1, d1, w1, SCHEDULED)
        ELSE Row(1, 1, 7, <<630, 660>>, SCHEDULED)] :
      d1 \in {6, 7, 8},
      w1 \in {<<600, 630>>, <<630, 600>>, <<NoTime, 630>>}}

InitBoundary ==
    /\ sessions \in BoundaryTables
    /\ settings = [t \in Therapists |-> NoSettings]
    /\ today = 7
    /\ cascades = 0
    /\ last = NoCall(sessions)
    /\ procs = [p \in Procs |-> IdleProc]

\* the session_data of the update requests: a new date or none, a new status or none
SessionUpdates ==
    {[session_date |-> d, status |-> st] : d \in {NoDate, 8}, st \in SESSION_STATUS \cup {NoStatus}}

\* the record of a request and its response
Responded(op, session_id, therapist_id, new_status, resp) ==
    [Called(op, session_id, therapist_id)
        EXCEPT !.new_status = new_status, !.outcome = resp.outcome,
               !.previous_status = resp.previous_status,
               !.current_status = resp.current_status,
               !.http = resp.http, !.code = resp.code, !.upcoming = resp.upcoming,
               !.today_value = today]

\* PUT /api/sessions/{id}/status
UpdateSessionStatusRequest(session_id, new_status, therapist_id) ==
    LET resp == UpdateSessionStatusEndpoint(sessions, session_id, new_status, therapist_id)
    IN /\ sessions' = resp.tbl
       /\ last' = Responded("update_session_status_endpoint", session_id, therapist_id, new_status, resp)
       /\ UNCHANGED <<settings, today, cascades, procs>>

\* POST /api/sessions/{id}/start
StartSessionRequest(session_id, therapist_id) ==
    LET resp == StartSessionEndpoint(sessions, today, session_id, therapist_id)
    IN /\ sessions' = resp.tbl
       /\ last' = Responded("start_session_endpoint", session_id, therapist_id, ONGOING, resp)
       /\ UNCHANGED <<settings, today, cascades, procs>>

\* POST /api/sessions/{id}/complete
CompleteSessionRequest(session_id, therapist_id, hook_raises) ==
    LET resp == CompleteSessionEndpoint(sessions, session_id, therapist_id, NoNotes, hook_raises)
    IN /\ sessions' = resp.tbl
       /\ last' = [Responded("complete_session_endpoint", session_id, therapist_id, COMPLETED, resp)
                      EXCEPT !.hook_raised = hook_raises /\ resp.outcome = "ok"]
       /\ UNCHANGED <<settings, today, cascades, procs>>

\* POST /api/sessions/{id}/cancel
CancelSessionRequest(session_id, therapist_id) ==
    LET resp == CancelSessionEndpoint(sessions, session_id, therapist_id)
    IN /\ sessions' = resp.tbl
       /\ last' = Responded("cancel_session_endpoint", session_id, therapist_id, CANCELLED, resp)
       /\ UNCHANGED <<settings, today, cascades, procs>>

\* PUT /api/sessions/{id} -> update_session
UpdateSessionRequest(session_id, therapist_id, session_data) ==
    LET r == UpdateSession(sessions, session_id, therapist_id, session_data)
    IN /\ sessions' = r.tbl
       /\ last' = [Called("update_session", session_id, therapist_id)
                      EXCEPT !.new_status = session_data.status, !.outcome = r.outcome,
                             !.http = IF r.outcome = "ok" THEN 200 ELSE 404,
                             !.today_value = today]
       /\ UNCHANGED <<settings, today, cascades, procs>>

NextBoundary ==
    \/ \E id \in LifecycleIds, st \in SESSION_STATUS, t \in Therapists : UpdateSessionStatusRequest(id, st, t)
    \/ \E id \in LifecycleIds, t \in Therapists : StartSessionRequest(id, t)
    \/ \E id \in LifecycleIds, t \in Therapists, h \in BOOLEAN : CompleteSessionRequest(id, t, h)
    \/ \E id \in LifecycleIds, t \in Therapists : CancelSessionRequest(id, t)
    \/ \E id \in LifecycleIds, t \in Therapists, u \in SessionUpdates : UpdateSessionRequest(id, t, u)

SpecBoundary == InitBoundary /\ [][NextBoundary]_vars

(***************************************************************************)
(* The constraint evaluator and the search, called on their own            *)
(***************************************************************************)
\* the slots a behaviour books in the occupancy map
MaxSlots == 2

\* the record of an evaluation, before any: `before` and `occupancy` are the occupancy map
\* at the start and at the end of the call
NoEvaluation ==
    [op |-> "none", start_from |-> NoDate, include_weekends |-> FALSE,
     allow_same_day |-> FALSE, session_start |-> NoTime, session_end |-> NoTime,
     found |-> NoDate, result |-> "", before |-> {}, occupancy |-> {}]

\* the search that the call before was, if it was one
PreviousSearch ==
    IF last.call.op = "_find_next_available_date" THEN last.call ELSE NoEvaluation

InitSearch ==
    /\ sessions = <<>>
    /\ settings \in {[t \in Therapists |-> IF t = 1 THEN stg ELSE NoSettings] :
                        stg \in SettingsChoices}
    /\ today = 4
    /\ cascades = 0
    /\ last = [call |-> NoEvaluation, previous |-> NoEvaluation]
    /\ procs = [p \in Procs |-> IdleProc]

\* the session windows of the evaluations: inside, before, on and after the bounds of the
\* configured working hours
Windows == {<<600, 630>>, <<530, 600>>, <<540, 1020>>, <<1000, 1030>>, <<610, 620>>}

\* _check_working_hours for a date of the week from Monday, day 0
CheckWorkingHoursCall(target_date, window, include_weekends) ==
    /\ last' = [call |-> [NoEvaluation EXCEPT
                    !.op = "_check_working_hours", !.start_from = target_date,
                    !.include_weekends = include_weekends,
                    !.session_start = window[1], !.session_end = window[2],
                    !.result = CheckWorkingHours(target_date, window[1], window[2],
                                                 GetWorkingHoursMap(settings[1]),
                                                 include_weekends),
                    !.before = last.call.occupancy, !.occupancy = last.call.occupancy],
                previous |-> NoEvaluation]
    /\ UNCHANGED <<sessions, settings, today, cascades, procs>>

\* _find_next_available_date on the occupancy map as the calls before left it
FindNextAvailableDateCall(start_from, include_weekends, allow_same_day, window) ==
    LET run == FindNextAvailableDateRun(start_from, include_weekends, allow_same_day,
                                        window[1], window[2],
                                        GetWorkingHoursMap(settings[1]),
                                        GetFreeHours(settings[1]), last.call.occupancy)
    IN /\ last' = [call |-> [NoEvaluation EXCEPT
                       !.op = "_find_next_available_date", !.start_from = start_from,
                       !.include_weekends = include_weekends,
                       !.allow_same_day = allow_same_day,
                       !.session_start = window[1], !.session_end = window[2],
                       !.found = run.date,
                       !.before = last.call.occupancy, !.occupancy = run.occupancy],
                   previous |-> PreviousSearch]
       /\ UNCHANGED <<sessions, settings, today, cascades, procs>>

\* _add_to_occupancy_map, as the cascade calls it between two searches
AddToOccupancyMapCall(target_date, window) ==
    /\ Cardinality(last.call.occupancy) < MaxSlots
    /\ <<target_date, window[1], window[2]>> \notin last.call.occupancy
    /\ last' = [call |-> [NoEvaluation EXCEPT
                    !.op = "_add_to_occupancy_map", !.start_from = target_date,
                    !.session_start = window[1], !.session_end = window[2],
                    !.before = last.call.occupancy,
                    !.occupancy = AddToOccupancyMap(last.call.occupancy, target_date,
                                                    window[1], window[2])],
                previous |-> NoEvaluation]
    /\ UNCHANGED <<sessions, settings, today, cascades, procs>>

NextSearch ==
    \/ \E d \in 0..6, w \in Windows, iw \in BOOLEAN : CheckWorkingHoursCall(d, w, iw)
    \/ \E d \in {today, today + 1}, iw \in BOOLEAN, asd \in BOOLEAN, w \in {<<600, 630>>} : FindNextAvailableDateCall(d, iw, asd, w)
    \/ \E d \in {today, today + 3, today + 4}, w \in {<<600, 630>>} : AddToOccupancyMapCall(d, w)

SpecSearch == InitSearch /\ [][NextSearch]_vars

(***************************************************************************)
(* The free-time check and the occupancy check, called on their own        *)
(***************************************************************************)
InitOverlap ==
    /\ sessions = <<>>
    /\ settings \in {[t \in Therapists |-> IF t = 1 THEN stg ELSE NoSettings] :
                        stg \in SettingsChoices}
    /\ today = 3
    /\ cascades = 0
    /\ last = [call |-> NoEvaluation, previous |-> NoEvaluation]
    /\ procs = [p \in Procs |-> IdleProc]

\* the session windows of these checks: equal to the block or slot 10:00-10:30, ending at
\* its start, starting at its end, inside it, across its start, around it, and apart
OverlapWindows ==
    {<<600, 630>>, <<570, 600>>, <<630, 660>>, <<610, 620>>, <<590, 610>>, <<540, 720>>,
     <<700, 730>>}

\* _check_free_time with the free hours of the therapist's settings
CheckFreeTimeCall(target_date, window) ==
    /\ last' = [call |-> [NoEvaluation EXCEPT
                    !.op = "_check_free_time", !.start_from = target_date,
                    !.session_start = window[1], !.session_end = window[2],
                    !.result = CheckFreeTime(target_date, window[1], window[2],
                                             GetFreeHours(settings[1])),
                    !.before = last.call.occupancy, !.occupancy = last.call.occupancy],
                previous |-> NoEvaluation]
    /\ UNCHANGED <<sessions, settings, today, cascades, procs>>

\* _has_time_conflict on the occupancy map as the calls before left it
HasTimeConflictCall(target_date, window) ==
    /\ last' = [call |-> [NoEvaluation EXCEPT
                    !.op = "_has_time_conflict", !.start_from = target_date,
                    !.session_start = window[1], !.session_end = window[2],
                    !.result = IF HasTimeConflict(last.call.occupancy, target_date,
                                                  window[1], window[2])
                               THEN "conflict" ELSE "ok",
                    !.before = last.call.occupancy, !.occupancy = last.call.occupancy],
                previous |-> NoEvaluation]
    /\ UNCHANGED <<sessions, settings, today, cascades, procs>>

NextOverlap ==
    \/ \E d \in 0..6, w \in OverlapWindows : CheckFreeTimeCall(d, w)
    \/ \E d \in {today, today + 1}, w \in OverlapWindows : HasTimeConflictCall(d, w)
    \/ \E d \in {today, today + 1}, w \in {<<600, 630>>, <<660, 700>>} : AddToOccupancyMapCall(d, w)

SpecOverlap == InitOverlap /\ [][NextOverlap]_vars

(***************************************************************************)
(* Concurrent status requests: update_session_status reads the row,        *)
(* validates the transition against what it read, and then writes by id    *)
(***************************************************************************)
\* a status request that is not in flight
IdleStatusProc ==
    [pc |-> "idle", session_id |-> 0, new_status |-> "", current_status |-> "", outcome |-> ""]

InitStatusRace ==
    /\ sessions = [id \in {1, 2} |-> Row(1, id, 7, <<600, 630>>, SCHEDULED)]
    /\ settings = [t \in Therapists |-> NoSettings]
    /\ today = 7
    /\ cascades = 0
    /\ last = NoCall(sessions)
    /\ procs = [p \in Procs |-> IdleStatusProc]

\* _get_session_details and _validate_status_transition of update_session_status: the
\* request ends with None or the invalid-transition error, or goes on to its write
ReadAndValidate(tbl, session_id, new_status) ==
    LET rows == GetSessionDetails(tbl, session_id)
    IN IF rows = {}
       THEN [IdleStatusProc EXCEPT !.pc = "done", !.session_id = session_id,
                                   !.new_status = new_status, !.outcome = "not_found"]
       ELSE IF ~ValidateStatusTransition(tbl[session_id].status, new_status)
       THEN [IdleStatusProc EXCEPT !.pc = "done", !.session_id = session_id,
                                   !.new_status = new_status,
                                   !.current_status = tbl[session_id].status,
                                   !.outcome = "error"]
       ELSE [IdleStatusProc EXCEPT !.pc = "write", !.session_id = session_id,
                                   !.new_status = new_status,
                                   !.current_status = tbl[session_id].status]

\* the update of update_session_status: .update({status}).eq('id', session_id)
WriteStatus(tbl, proc) ==
    IF StatusUpdateRows(tbl, proc.session_id, 0) = {}
    THEN [tbl |-> tbl, proc |-> [proc EXCEPT !.pc = "done", !.outcome = "not_found"]]
    ELSE [tbl |-> [tbl EXCEPT ![proc.session_id].status = proc.new_status],
          proc |-> [proc EXCEPT !.pc = "done", !.outcome = "ok"]]

\* a request (status, start, complete, cancel endpoint or the login check) reaches
\* update_session_status, which reads and validates
ReadAndValidateStep(p, session_id, new_status) ==
    /\ procs[p].pc = "idle"
    /\ procs' = [procs EXCEPT ![p] = ReadAndValidate(sessions, session_id, new_status)]
    /\ last' = [Called("update_session_status:read", session_id, 0)
                   EXCEPT !.new_status = new_status]
    /\ UNCHANGED <<sessions, settings, today, cascades>>

\* the request writes the status it validated
WriteStatusStep(p) ==
    /\ procs[p].pc = "write"
    /\ LET r == WriteStatus(sessions, procs[p])
       IN /\ sessions' = r.tbl
          /\ procs' = [procs EXCEPT ![p] = r.proc]
          /\ last' = [Called("update_session_status:write", procs[p].session_id, 0)
                         EXCEPT !.new_status = procs[p].new_status,
                                !.previous_status = procs[p].current_status,
                                !.current_status = procs[p].new_status,
                                !.outcome = r.proc.outcome]
    /\ UNCHANGED <<settings, today, cascades>>

\* the response is sent and the worker takes the next request
RespondStep(p) ==
    /\ procs[p].pc = "done"
    /\ procs' = [procs EXCEPT ![p] = IdleStatusProc]
    /\ last' = [Called("update_session_status:respond", procs[p].session_id, 0)
                   EXCEPT !.outcome = procs[p].outcome]
    /\ UNCHANGED <<sessions, settings, today, cascades>>

NextStatusRace ==
    \/ \E p \in Procs, id \in LifecycleIds, st \in SESSION_STATUS : ReadAndValidateStep(p, id, st)
    \/ \E p \in Procs : WriteStatusStep(p)
    \/ \E p \in Procs : RespondStep(p)

SpecStatusRace == InitStatusRace /\ [][NextStatusRace]_vars

(***************************************************************************)
(* Reminder scheduling                                                     *)
(***************************************************************************)
\* session 1 of therapist 1 today (day 7) or tomorrow at 10:00, session 2 of therapist 1 or
\* 2 today at 11:00
NotifyTables ==
    {[id \in {1, 2} |->
        IF id = 1 THEN Row(1, 1, d1, <<600, 630>>, st1)
        ELSE Row(t2, 2, 7, <<660, 690>>, st2)] :
      d1 \in {7, 8}, st1 \in SESSION_STATUS, t2 \in Therapists, st2 \in {SCHEDULED, CANCELLED}}

InitNotify ==
    /\ sessions \in NotifyTables
    /\ settings = [t \in Therapists |-> NoSettings]
    /\ today = 7
    /\ cascades = 0
    /\ last = [op |-> "none", therapist_id |-> 0, now |-> 0, success |-> TRUE,
               scheduled_count |-> 0, recorded |-> {}, pre |-> sessions]
    /\ procs = [p \in Procs |-> IdleProc]

\* the clock of the calls, in seconds since midnight: 09:30, 09:55, 09:58, 10:00, 10:30
NotifyClock == {34200, 35700, 35880, 36000, 37800}

\* schedule_session_notifications_for_day
ScheduleSessionNotificationsForDayCall(therapist_id, now) ==
    LET r == ScheduleSessionNotificationsForDay(sessions, therapist_id, today, now)
    IN /\ last' = [op |-> "schedule_session_notifications_for_day",
                   therapist_id |-> therapist_id, now |-> now, success |-> r.success,
                   scheduled_count |-> r.scheduled_count, recorded |-> r.recorded,
                   pre |-> sessions]
       /\ UNCHANGED <<sessions, settings, today, cascades, procs>>

NextNotify ==
    \E t \in Therapists, now \in NotifyClock : ScheduleSessionNotificationsForDayCall(t, now)

SpecNotify == InitNotify /\ [][NextNotify]_vars

(***************************************************************************)
(* Properties of the status operations                                     *)
(***************************************************************************)
StatusCalls == {"update_session_status", "start_session", "cancel_session", "complete_session"}

TerminalStatuses == {COMPLETED, CANCELLED}

\* the transition table of the lifecycle: (from, to) pairs that are allowed
TransitionTable ==
    {<<SCHEDULED, ONGOING>>, <<SCHEDULED, CANCELLED>>,
     <<ONGOING, COMPLETED>>, <<ONGOING, CANCELLED>>}

\* C1: update_session_status on an existing session succeeds, returning the previous and the
\* new status and storing the new status, exactly when (current status, requested status) is
\* one of scheduled->ongoing, scheduled->cancelled, ongoing->completed, ongoing->cancelled;
\* for every other pair it fails and the stored session is unchanged
C1_TransitionTable ==
    (last.op = "update_session_status" /\ last.session_id \in DOMAIN last.pre) =>
        LET from == last.pre[last.session_id].status
        IN IF <<from, last.new_status>> \in TransitionTable
           THEN /\ last.outcome = "ok"
                /\ last.previous_status = from
                /\ last.current_status = last.new_status
                /\ sessions[last.session_id].status = last.new_status
           ELSE /\ last.outcome # "ok"
                /\ sessions = last.pre

\* an ongoing session was completed through update_session_status
C1_Witness ==
    /\ last.op = "update_session_status"
    /\ last.session_id \in DOMAIN last.pre
    /\ last.pre[last.session_id].status = ONGOING
    /\ last.new_status = COMPLETED
    /\ last.outcome = "ok"

\* C2: a session whose status is completed or cancelled keeps that status under every
\* operation: update_session_status, start_session, complete_session, cancel_session,
\* check_sessions_on_login, auto_update_session_statuses and cascade_reschedule_sessions
C2_TerminalStatusesStay ==
    [][\A id \in DOMAIN sessions :
          sessions[id].status \in TerminalStatuses =>
              /\ id \in DOMAIN sessions'
              /\ sessions'[id].status = sessions[id].status]_vars

\* a status operation was called on a session that was completed or cancelled
C2_Witness ==
    /\ last.op \in StatusCalls
    /\ last.session_id \in DOMAIN last.pre
    /\ last.pre[last.session_id].status \in TerminalStatuses
    /\ \E id \in DOMAIN sessions : sessions[id].status = COMPLETED
    /\ \E id \in DOMAIN sessions : sessions[id].status = CANCELLED

\* C5: a status operation called by a therapist on a session that another therapist owns
\* behaves as on a session id that does not exist: no row is changed and the result is the
\* one of a missing session
C5_OwnershipScoped ==
    (/\ last.op \in StatusCalls
     /\ last.session_id \in DOMAIN last.pre
     /\ last.pre[last.session_id].therapist_id # last.therapist_id) =>
        /\ sessions = last.pre
        /\ last.outcome = "not_found"

\* C15: a failure of the assessment hook never blocks completion: complete_session on an
\* ongoing session stores the status completed and returns the before/after record whether
\* the hook returns or fails; the hook's error does not reach the caller
C15_HookNeverBlocksCompletion ==
    (/\ last.op = "complete_session"
     /\ last.session_id \in DOMAIN last.pre
     /\ last.pre[last.session_id].status = ONGOING) =>
        /\ last.hook_invoked
        /\ last.outcome = "ok"
        /\ last.previous_status = ONGOING
        /\ last.current_status = COMPLETED
        /\ sessions[last.session_id].status = COMPLETED

\* an ongoing session was completed by a call whose hook failed
C15_Witness ==
    /\ last.op = "complete_session"
    /\ last.session_id \in DOMAIN last.pre
    /\ last.pre[last.session_id].status = ONGOING
    /\ last.hook_raised
    /\ last.outcome = "ok"
    /\ sessions[last.session_id].status = COMPLETED

(***************************************************************************)
(* Properties of the cascade reschedule                                    *)
(***************************************************************************)
IsCascade == last.op = "cascade_reschedule_sessions"

CascadeOk == IsCascade /\ last.outcome = "ok"

\* the ids the call placed, in processing order
PlacedIds == {last.proposed[k].id : k \in DOMAIN last.proposed}

\* a row with a date and a start and end time of day
HasWindow(row) ==
    row.session_date # NoDate /\ row.start_time \in 0..1439 /\ row.end_time \in 0..1439

\* two rows on the same date whose [start, end) windows intersect
Overlapping(a, b) ==
    /\ a.session_date = b.session_date
    /\ a.start_time < b.end_time
    /\ b.start_time < a.end_time

\* C3 as stated: after a successful cascade no session the call placed overlaps, on its
\* resulting date, any other session of the same therapist, placed or pre-existing
C3_NoOverlapAnySession ==
    CascadeOk =>
        \A i \in PlacedIds, j \in DOMAIN sessions :
            (/\ j # i
             /\ sessions[j].therapist_id = sessions[i].therapist_id
             /\ HasWindow(sessions[j])) => ~Overlapping(sessions[i], sessions[j])

\* C3: after a successful cascade no session the call placed overlaps, on its resulting
\* date, another session of the same therapist that the call placed or that is a
\* pre-existing session in scheduled status with a date and times that parse
C3_NoOverlapScheduled ==
    CascadeOk =>
        \A i \in PlacedIds, j \in DOMAIN sessions :
            (/\ j # i
             /\ sessions[j].therapist_id = sessions[i].therapist_id
             /\ sessions[j].status = SCHEDULED
             /\ HasWindow(sessions[j])) => ~Overlapping(sessions[i], sessions[j])

\* a placed session went past the date of a pre-existing scheduled session of the
\* therapist whose window intersects its own
C3_Witness ==
    /\ CascadeOk
    /\ \E k \in DOMAIN last.proposed, j \in DOMAIN sessions :
          LET item == last.proposed[k]
          IN /\ j \notin PlacedIds
             /\ sessions[j].therapist_id = last.therapist_id
             /\ sessions[j].status = SCHEDULED
             /\ sessions[j].start_time < sessions[item.id].end_time
             /\ sessions[item.id].start_time < sessions[j].end_time
             /\ item.previous_date < sessions[j].session_date
             /\ sessions[j].session_date < item.new_date

\* the working-hours message of a date for a session of the call
WorkingHoursOn(d, id) ==
    CheckWorkingHours(d, last.pre[id].start_time, last.pre[id].end_time,
                      GetWorkingHoursMap(settings[last.therapist_id]), last.include_weekends)

\* the free-time message of a date for a session of the call
FreeTimeOn(d, id) ==
    CheckFreeTime(d, last.pre[id].start_time, last.pre[id].end_time,
                  GetFreeHours(settings[last.therapist_id]))

\* C4: after a successful cascade the new date of every placed session is stored and passes
\* the working-hours check and the free-time check for the session's start and end time
\* under the therapist's configuration and the include-weekends flag of the call
C4_PlacedDatesPassChecks ==
    CascadeOk =>
        \A k \in DOMAIN last.proposed :
            LET item == last.proposed[k]
            IN /\ sessions[item.id].session_date = item.new_date
               /\ WorkingHoursOn(item.new_date, item.id) = "ok"
               /\ FreeTimeOn(item.new_date, item.id) = "ok"

\* a placed session went past a date the working hours reject and a date a free-time
\* block rejects
C4_Witness ==
    /\ CascadeOk
    /\ \E k \in DOMAIN last.proposed :
          LET item == last.proposed[k]
              skipped == (item.previous_date + 1)..(item.new_date - 1)
          IN /\ \E d \in skipped : WorkingHoursOn(d, item.id) \in {"starts_before", "ends_after"}
             /\ \E d \in skipped : FreeTimeOn(d, item.id) = "free_time"

\* the call found its anchor session, owned by the caller and with a date
AnchorFound ==
    /\ IsCascade
    /\ last.session_id \in DOMAIN last.pre
    /\ last.pre[last.session_id].therapist_id = last.therapist_id
    /\ last.pre[last.session_id].session_date # NoDate

\* the scheduled sessions of the anchor's therapist and learner dated from the earlier of
\* the anchor's date and today onward, in the table before the call
UpcomingOfAnchor ==
    LET anchor == last.pre[last.session_id]
    IN {j \in DOMAIN last.pre :
          /\ last.pre[j].therapist_id = last.therapist_id
          /\ last.pre[j].child_id = anchor.child_id
          /\ last.pre[j].status = SCHEDULED
          /\ last.pre[j].session_date >= Min(anchor.session_date, last.today_value)}

\* (date, start time, id) of session a is before that of session b
KeyBefore(a, b) ==
    LET ra == last.pre[a]
        rb == last.pre[b]
    IN \/ ra.session_date < rb.session_date
       \/ ra.session_date = rb.session_date /\ ra.start_time < rb.start_time
       \/ ra.session_date = rb.session_date /\ ra.start_time = rb.start_time /\ a < b

\* C6: in every cascade call that reaches the placement phase the anchor session is in the
\* batch and is processed first, and the remaining sessions are processed in ascending
\* (session date, start time, id) order
C6_AnchorFirstThenSorted ==
    (AnchorFound /\ UpcomingOfAnchor # {}) =>
        /\ Len(last.batch) >= 1
        /\ last.batch[1] = last.session_id
        /\ \A i, j \in 2..Len(last.batch) : i < j => KeyBefore(last.batch[i], last.batch[j])

\* the slots taken when the k-th session of the call is placed: the therapist's scheduled
\* sessions outside the batch, and the sessions placed before it
OccupancyBefore(k) ==
    {<<last.pre[j].session_date, last.pre[j].start_time, last.pre[j].end_time>> :
        j \in {i \in DOMAIN last.pre \ Range(last.batch) :
                 /\ last.pre[i].therapist_id = last.therapist_id
                 /\ last.pre[i].status = SCHEDULED
                 /\ HasWindow(last.pre[i])}}
    \cup
    {<<last.proposed[m].new_date, last.pre[last.proposed[m].id].start_time,
       last.pre[last.proposed[m].id].end_time>> : m \in 1..(k - 1)}

\* date d passes the working-hours, free-time and occupancy checks for the k-th session
DatePasses(d, k) ==
    LET id == last.proposed[k].id
    IN /\ WorkingHoursOn(d, id) = "ok"
       /\ FreeTimeOn(d, id) = "ok"
       /\ \A slot \in OccupancyBefore(k) :
             ~(/\ slot[1] = d
               /\ last.pre[id].start_time < slot[3]
               /\ slot[2] < last.pre[id].end_time)

\* the baseline of the k-th session: the latest of its original date, today and the date
\* assigned to the session before it
BaselineOf(k) ==
    LET own == Max(last.proposed[k].previous_date, last.today_value)
    IN IF k = 1 THEN own ELSE Max(own, last.proposed[k - 1].new_date)

\* every session after the first is placed on its baseline date itself when that date
\* passes all checks, and never before its baseline
LaterSessionsFromBaseline ==
    \A k \in DOMAIN last.proposed :
        k >= 2 =>
            /\ last.proposed[k].new_date >= BaselineOf(k)
            /\ DatePasses(BaselineOf(k), k) => last.proposed[k].new_date = BaselineOf(k)

\* C7: in a successful cascade the anchor's new date is strictly later than the later of
\* its original date and today, however free its own day is; every later session of the
\* batch may be placed on its baseline date itself when that date passes all checks
C7_AnchorMovesOthersMayStay ==
    CascadeOk =>
        /\ sessions[last.session_id].session_date >
               Max(last.pre[last.session_id].session_date, last.today_value)
        /\ LaterSessionsFromBaseline

\* the same for the successful cascades whose anchor is a scheduled session: there the
\* anchor moves strictly forward and the later sessions start from their baseline
C7_WhenAnchorScheduled ==
    (CascadeOk /\ last.pre[last.session_id].status = SCHEDULED) =>
        /\ last.proposed[1].id = last.session_id
        /\ sessions[last.session_id].session_date >
               Max(last.pre[last.session_id].session_date, last.today_value)
        /\ LaterSessionsFromBaseline

\* the scenario of C8 before the call: only Monday 09:00-17:00 configured, weekends
\* excluded, sessions 1 (Monday) and 2 (Tuesday) of one learner at 10:00-10:30, no other
\* session of the therapist, today not later than that Monday, session 1 the anchor
MondayTuesdayScenario ==
    /\ IsCascade
    /\ last.session_id = 1 /\ last.therapist_id = 1 /\ ~last.include_weekends
    /\ settings[1] = MondayOnly
    /\ last.today_value <= 7
    /\ last.pre[1] = Row(1, 1, 7, <<600, 630>>, SCHEDULED)
    /\ last.pre[2] = Row(1, 1, 8, <<600, 630>>, SCHEDULED)
    /\ \A j \in DOMAIN last.pre \ {1, 2} : last.pre[j].therapist_id # 1

\* C8: in that scenario the cascade succeeds, the anchor ends on Tuesday and the second
\* session on Wednesday or later, the Tuesday slot being taken by the anchor
C8_MondayTuesday ==
    MondayTuesdayScenario =>
        /\ last.outcome = "ok"
        /\ sessions[1].session_date = 8
        /\ sessions[2].session_date >= 9
        /\ Weekday(sessions[1].session_date) = 1
        /\ Weekday(sessions[2].session_date) \in 2..4

\* the scenario was run
C8_Witness ==
    /\ MondayTuesdayScenario
    /\ last.outcome = "ok"
    /\ sessions[2].session_date = 9

\* C9: a cascade whose anchor's learner has no upcoming scheduled session fails with the
\* no-upcoming-sessions error and changes nothing; no cascade succeeds with zero sessions
\* updated
C9_NoUpcomingFails ==
    /\ (AnchorFound /\ UpcomingOfAnchor = {}) =>
           /\ last.outcome = "no_upcoming"
           /\ sessions = last.pre
    /\ CascadeOk => (last.total_updated >= 1 /\ Len(last.proposed) = last.total_updated)

\* a cascade was called on a session whose learner has no scheduled session left
C9_Witness ==
    /\ AnchorFound
    /\ UpcomingOfAnchor = {}
    /\ last.outcome = "no_upcoming"

\* a session the placement loop rejects: a time missing or start not before end
BadTiming(row) ==
    \/ row.start_time \notin 0..1439
    \/ row.end_time \notin 0..1439
    \/ row.start_time >= row.end_time

\* C10: when a session of the batch has a missing or unparsable time or date or a start
\* not before its end, or the search finds no date for some session, the cascade fails
\* and no session is modified, also not the sessions resolved before the failing one
C10_NoPartialPersistence ==
    /\ (AnchorFound /\ \E j \in UpcomingOfAnchor : BadTiming(last.pre[j]) \/ last.pre[j].session_date = NoDate) =>
           /\ last.outcome \in {"incomplete_timing", "invalid_time_range", "unparsable_date", "no_suitable_date"}
           /\ sessions = last.pre
    /\ (IsCascade /\ last.outcome = "no_suitable_date") => sessions = last.pre

\* the call failed on a later session after resolving a date for an earlier one
C10_Witness ==
    /\ IsCascade
    /\ last.outcome \in {"incomplete_timing", "invalid_time_range"}
    /\ Len(last.proposed) >= 1
    /\ sessions = last.pre

(***************************************************************************)
(* Properties of concurrent requests                                       *)
(***************************************************************************)
\* the ids request p has not written that another request has written
WrittenByOthers(p) ==
    UNION {Range(procs[q].written) : q \in Procs \ {p}}

\* the update request p sends next matches a row of the table
NextUpdateMatches(p) ==
    LET item == procs[p].proposed[procs[p].k]
    IN item.id \in DOMAIN sessions /\ sessions[item.id].therapist_id = procs[p].therapist_id

\* what a request that ended on a failed update leaves: the updates before the failed one
\* were made and their rows hold the new dates, the rows after it hold their old dates
\* (rows deleted or written by another request aside)
FailedUpdateLeaves(p) ==
    LET proc == procs[p]
    IN proc.outcome = "update_failed" =>
        /\ proc.k \in 1..Len(proc.proposed)
        /\ proc.written = [m \in 1..(proc.k - 1) |-> proc.proposed[m].id]
        /\ \A m \in 1..Len(proc.proposed) :
              LET item == proc.proposed[m]
              IN (item.id \in DOMAIN sessions /\ item.id \notin WrittenByOthers(p)) =>
                    sessions[item.id].session_date =
                        IF m < proc.k THEN item.new_date ELSE item.previous_date

\* C11: the persistence of a cascade is per record and not atomic: when the k-th update
\* matches no row the call ends with an error and writes nothing at that step, the sessions
\* updated before it keep their new dates, and the sessions after it are never attempted
\* and keep their old dates
C11_PerRecordNoRollback ==
    [][\A p \in Procs :
          /\ (procs[p].pc = "persist" /\ procs'[p] # procs[p] /\ ~NextUpdateMatches(p)) =>
                /\ procs'[p].pc = "done"
                /\ procs'[p].outcome = "update_failed"
                /\ procs'[p].k = procs[p].k
                /\ sessions' = sessions
          /\ procs[p].pc = "done" => procs'[p] = procs[p]
          /\ FailedUpdateLeaves(p)']_vars

\* a request failed on its second update of three: the first session holds its new date,
\* the third its old one
C11_Witness ==
    \E p \in Procs :
        LET proc == procs[p]
        IN /\ proc.outcome = "update_failed"
           /\ proc.k = 2
           /\ Len(proc.proposed) = 3
           /\ proc.proposed[1].id \in DOMAIN sessions
           /\ sessions[proc.proposed[1].id].session_date = proc.proposed[1].new_date
           /\ proc.proposed[3].id \in DOMAIN sessions
           /\ sessions[proc.proposed[3].id].session_date = proc.proposed[3].previous_date
           /\ proc.proposed[3].new_date # proc.proposed[3].previous_date

\* two scheduled sessions of one therapist on the same date with intersecting windows
DoubleBooked(a, b) ==
    /\ a \in DOMAIN sessions /\ b \in DOMAIN sessions /\ a # b
    /\ sessions[a].therapist_id = sessions[b].therapist_id
    /\ sessions[a].status = SCHEDULED /\ sessions[b].status = SCHEDULED
    /\ Overlapping(sessions[a], sessions[b])

\* both requests succeeded, for the same therapist and two learners, and a session placed
\* by one overlaps a session placed by the other
BothSucceedDoubleBooked ==
    /\ procs[1].outcome = "ok" /\ procs[2].outcome = "ok"
    /\ procs[1].therapist_id = procs[2].therapist_id
    /\ \E a \in Range(procs[1].written), b \in Range(procs[2].written) :
          /\ DoubleBooked(a, b)
          /\ sessions[a].child_id # sessions[b].child_id

\* C12: there is no cross-request guarantee: two cascade calls of one therapist for two
\* learners can both succeed and leave two scheduled sessions of the therapist overlapping
\* on one date (C12_Witness is such an outcome); it takes calls that are in flight together,
\* a call received after the other one ended sees the other's dates and avoids them
C12_DoubleBookingOnlyWhenConcurrent ==
    BothSucceedDoubleBooked => (1 \notin procs[2].after /\ 2 \notin procs[1].after)

\* both calls succeeded and double-booked the therapist
C12_Witness ==
    /\ BothSucceedDoubleBooked
    /\ DOMAIN sessions = SessionIds

(***************************************************************************)
(* Properties of the login punctuality evaluator                           *)
(***************************************************************************)
IsLogin == last.op = "check_sessions_on_login"

\* the caller's sessions of today in the table before the call
TodayOfCaller ==
    {id \in DOMAIN last.pre : /\ last.pre[id].therapist_id = last.therapist_id
                               /\ last.pre[id].session_date = today}

\* those of them that no other one precedes by start time
EarliestOfCaller ==
    {id \in TodayOfCaller :
        \A other \in TodayOfCaller : last.pre[id].start_time <= last.pre[other].start_time}

\* the start of the first session of the call, in seconds since midnight
FirstStartSeconds == 60 * last.pre[last.first_session].start_time

\* C13: a login strictly after the start of today's first session (by start time) returns
\* a late notification for that session with minutes_late = floor((now - start) / 1 min);
\* a scheduled session becomes ongoing and sessions_updated = 1, a session in another status
\* is left alone and sessions_updated = 0; no other session changes
C13_LateLogin ==
    (IsLogin /\ TodayOfCaller # {}) =>
        /\ last.first_session \in EarliestOfCaller
        /\ last.now > FirstStartSeconds =>
              /\ last.outcome = "ok"
              /\ last.notification_type = "late"
              /\ 60 * last.minutes <= last.now - FirstStartSeconds
              /\ last.now - FirstStartSeconds < 60 * (last.minutes + 1)
              /\ IF last.pre[last.first_session].status = SCHEDULED
                 THEN /\ last.sessions_updated = 1
                      /\ sessions = [last.pre EXCEPT ![last.first_session].status = ONGOING]
                 ELSE /\ last.sessions_updated = 0
                      /\ sessions = last.pre

\* a login 30 seconds after the start of a scheduled first session: late by 0 whole minutes,
\* the session started
C13_Witness ==
    /\ IsLogin /\ TodayOfCaller # {}
    /\ last.now = FirstStartSeconds + 30
    /\ last.notification_type = "late"
    /\ last.minutes = 0
    /\ last.sessions_updated = 1
    /\ sessions[last.first_session].status = ONGOING

\* C14: a login at or before the start of today's first session returns an upcoming
\* notification with minutes_remaining = floor((start - now) / 1 min), sessions_updated = 0
\* and no status change; with no session today the call returns a result without a
\* notification and changes nothing
C14_EarlyLogin ==
    IsLogin =>
        IF TodayOfCaller = {}
        THEN /\ last.outcome = "ok"
             /\ last.notification_type = "none"
             /\ last.sessions_updated = 0
             /\ sessions = last.pre
        ELSE last.now <= FirstStartSeconds =>
                /\ last.outcome = "ok"
                /\ last.notification_type = "upcoming"
                /\ 60 * last.minutes <= FirstStartSeconds - last.now
                /\ FirstStartSeconds - last.now < 60 * (last.minutes + 1)
                /\ last.sessions_updated = 0
                /\ sessions = last.pre

\* a login at the very start of the first session: upcoming, 0 minutes remaining
C14_Witness ==
    /\ IsLogin /\ TodayOfCaller # {}
    /\ last.now = FirstStartSeconds
    /\ last.pre[last.first_session].status = SCHEDULED
    /\ last.notification_type = "upcoming"
    /\ last.minutes = 0

(***************************************************************************)
(* Properties of the boundary layer                                        *)
(***************************************************************************)
IsRequest(op) == last.op = op /\ last.session_id \in DOMAIN last.pre

\* the row of the request belongs to the requesting therapist
OwnedBefore == last.pre[last.session_id].therapist_id = last.therapist_id

\* readiness of the requested session: its date is today, both times parse, start < end
ReadyBefore ==
    LET row == last.pre[last.session_id]
    IN /\ row.session_date = last.today_value
       /\ row.start_time \in 0..1439
       /\ row.end_time \in 0..1439
       /\ row.start_time < row.end_time

\* the list is made of scheduled sessions of the learner and holds every one of them that
\* is dated neither before today nor before the requested session
IsUpcomingListOfLearner(ids) ==
    LET row == last.pre[last.session_id]
        ofLearner(id) == /\ last.pre[id].therapist_id = last.therapist_id
                         /\ last.pre[id].child_id = row.child_id
                         /\ last.pre[id].status = SCHEDULED
    IN /\ \A id \in ids : id \in DOMAIN last.pre /\ ofLearner(id)
       /\ \A id \in DOMAIN last.pre :
            (/\ ofLearner(id)
             /\ last.pre[id].session_date >= Max(last.today_value, row.session_date)) => id \in ids

StatusEndpoints ==
    {"update_session_status_endpoint", "start_session_endpoint", "complete_session_endpoint",
     "cancel_session_endpoint"}

\* the request names no session of the table
AbsentId == last.session_id \notin DOMAIN last.pre

\* the request asks for a status that the table of transitions does not allow
NotInTransitionTable ==
    /\ last.session_id \in DOMAIN last.pre
    /\ last.new_status \notin ValidTransitions(last.pre[last.session_id].status)

\* C17: a status change that is not in the transition table, and a status operation on an
\* absent session id, are answered by the status, start, complete and cancel endpoints
\* with a 4xx status, never with a 5xx
C17_ClientErrorsAre4xx ==
    (last.op \in StatusEndpoints /\ (AbsentId \/ NotInTransitionTable)) =>
        last.http \in 400..499

\* the statuses that the table of transitions leads to from a status, in any number of steps
ReachableStatuses(status) ==
    LET one == {status} \cup ValidTransitions(status)
        two == one \cup UNION {ValidTransitions(st) : st \in one}
    IN two \cup UNION {ValidTransitions(st) : st \in two}

\* C20: an operation outside the state machine, in particular the generic update of
\* sessions.py, never leaves a session with a status that the transition table does not
\* reach from the status it had
C20_GenericUpdateKeepsStatusReachable ==
    (last.op = "update_session" /\ last.session_id \in DOMAIN last.pre) =>
        sessions[last.session_id].status
            \in ReachableStatuses(last.pre[last.session_id].status)

(***************************************************************************)
(* Properties of the search and of the working-hours check                 *)
(***************************************************************************)
IsSearch(call) == call.op = "_find_next_available_date"

\* two calls with the same start_from, include_weekends, allow_same_day and session times
\* (working hours and free time are those of the therapist's settings in both)
SameArguments(a, b) ==
    /\ a.start_from = b.start_from
    /\ a.include_weekends = b.include_weekends
    /\ a.allow_same_day = b.allow_same_day
    /\ a.session_start = b.session_start
    /\ a.session_end = b.session_end

WorkingHoursTable(target_date, session_start, session_end, map, include_weekends) ==
    LET day == DayName(target_date)
        weekend == day \in {"Saturday", "Sunday"}
    IN IF weekend /\ include_weekends THEN TRUE
       ELSE IF day \notin DOMAIN map THEN ~weekend
       ELSE IF ~map[day].enabled THEN FALSE
       ELSE ~ \/ (map[day].startTime \in 0..1439 /\ session_start < map[day].startTime)
              \/ (map[day].endTime \in 0..1439 /\ session_end > map[day].endTime)

\* C19: the working-hours check passes exactly when the decision table says so: a weekend
\* date with include_weekends passes; else a day without entry fails on Saturday/Sunday and
\* passes Monday-Friday; a disabled entry fails; an enabled entry fails exactly when the
\* session starts before the entry's start or ends after its end
C19_WorkingHoursDecisionTable ==
    last.call.op = "_check_working_hours" =>
        ((last.call.result = "ok") =
            WorkingHoursTable(last.call.start_from, last.call.session_start,
                              last.call.session_end, GetWorkingHoursMap(settings[1]),
                              last.call.include_weekends))

C19_Witness ==
    /\ last.call.op = "_check_working_hours"
    /\ DayName(last.call.start_from) = "Saturday"
    /\ "Saturday" \notin DOMAIN GetWorkingHoursMap(settings[1])
    /\ ~last.call.include_weekends
    /\ last.call.result # "ok"

\* whether date d passes the three checks of the search of the last call
PassesAllThree(d) ==
    /\ CheckWorkingHours(d, last.call.session_start, last.call.session_end,
                         GetWorkingHoursMap(settings[1]), last.call.include_weekends) = "ok"
    /\ CheckFreeTime(d, last.call.session_start, last.call.session_end,
                     GetFreeHours(settings[1])) = "ok"
    /\ ~HasTimeConflict(last.call.before, d, last.call.session_start, last.call.session_end)

\* the dates from start_from up to d that the search visits: start_from itself when
\* allow_same_day, and each later date except the weekends it steps over
VisitedUpTo(d) ==
    {c \in last.call.start_from..d :
        IF c = last.call.start_from THEN last.call.allow_same_day
        ELSE last.call.include_weekends \/ Weekday(c) < 5}

\* C21: the date returned by _find_next_available_date passes the working-hours, free-time
\* and occupancy checks and no candidate visited before it does; without allow_same_day it
\* is after start_from, and with it start_from is returned when it passes
C21_FirstPassingCandidate ==
    IsSearch(last.call) =>
        /\ last.call.found # NoDate =>
              /\ last.call.found \in VisitedUpTo(last.call.found)
              /\ PassesAllThree(last.call.found)
              /\ \A c \in VisitedUpTo(last.call.found - 1) : ~PassesAllThree(c)
              /\ ~last.call.allow_same_day => last.call.found > last.call.start_from
        /\ (last.call.allow_same_day /\ PassesAllThree(last.call.start_from)) =>
              last.call.found = last.call.start_from

C21_Witness ==
    /\ IsSearch(last.call)
    /\ last.call.allow_same_day
    /\ last.call.found # NoDate
    /\ \E c \in VisitedUpTo(last.call.found - 1) : c > last.call.start_from
    /\ HasTimeConflict(last.call.before, last.call.start_from, last.call.session_start,
                       last.call.session_end)

\* C22: _find_next_available_date tests at most max_iterations candidates; a date it
\* returns passes the three checks, and it fails with the no-suitable-date error (no date)
\* only when none of the candidates of its iterations passes
C22_HardStopAfterMaxIterations ==
    IsSearch(last.call) =>
        /\ last.call.found # NoDate =>
              /\ PassesAllThree(last.call.found)
              /\ Cardinality(VisitedUpTo(last.call.found)) <= MaxIterations
        /\ last.call.found = NoDate =>
              \A c \in VisitedUpTo(last.call.start_from + MaxIterations - 1) :
                  ~PassesAllThree(c)

C22_Witness ==
    /\ IsSearch(last.call)
    /\ last.call.found = NoDate
    /\ ~last.call.include_weekends
    /\ last.call.before # {}

\* C23: without include_weekends every date that _find_next_available_date returns falls
\* on Monday-Friday
C23_ReturnedDateIsWeekday ==
    (IsSearch(last.call) /\ ~last.call.include_weekends /\ last.call.found # NoDate) =>
        Weekday(last.call.found) < 5

(***************************************************************************)
(* Properties of the overlap tests                                         *)
(***************************************************************************)
\* the half-open windows [a_start, a_end) and [b_start, b_end) share a minute of the day
SharesInstant(a_start, a_end, b_start, b_end) ==
    \E minute \in 0..1439 : a_start <= minute /\ minute < a_end /\ b_start <= minute /\ minute < b_end

\* the free-time blocks of the weekday of the call's date whose bounds parse
BlocksOfTheDay ==
    {block \in Range(GetFreeHours(settings[1])) :
        /\ block.day = DayName(last.call.start_from)
        /\ block.startTime \in 0..1439
        /\ block.endTime \in 0..1439}

\* the booked intervals of the call's date
SlotsOfTheDay == {slot \in last.call.before : slot[1] = last.call.start_from}

\* C24: the free-time check fails exactly when the window shares an instant with a block of
\* the same weekday, and the occupancy check reports a conflict exactly when it shares an
\* instant with an interval booked on the same date; windows that only touch do not
\* conflict and blocks of other weekdays are ignored
C24_HalfOpenOverlap ==
    /\ last.call.op = "_check_free_time" =>
          ((last.call.result # "ok") =
              \E block \in BlocksOfTheDay :
                  SharesInstant(last.call.session_start, last.call.session_end,
                                block.startTime, block.endTime))
    /\ last.call.op = "_has_time_conflict" =>
          ((last.call.result = "conflict") =
              \E slot \in SlotsOfTheDay :
                  SharesInstant(last.call.session_start, last.call.session_end,
                                slot[2], slot[3]))

C24_Witness ==
    /\ last.call.op = "_has_time_conflict"
    /\ \E slot \in SlotsOfTheDay : slot[2] = last.call.session_end
    /\ \E slot \in last.call.before : slot[1] # last.call.start_from
    /\ last.call.result = "ok"

(***************************************************************************)
(* Further properties of the cascade                                       *)
(***************************************************************************)
\* session a is chronologically before session b (by date, then start time) in table tbl
ChronologicallyBefore(tbl, a, b) ==
    \/ tbl[a].session_date < tbl[b].session_date
    \/ tbl[a].session_date = tbl[b].session_date /\ tbl[a].start_time < tbl[b].start_time

\* C25: after a successful cascade any two sessions of the batch are in the chronological
\* order (date, then start time) they were in before the call
C25_RelativeOrderPreserved ==
    CascadeOk =>
        \A a, b \in PlacedIds :
            ChronologicallyBefore(last.pre, a, b) => ChronologicallyBefore(sessions, a, b)

\* C29: every date a cascade assigns is after today and not before the session's original
\* date, and the dates are non-decreasing in processing order
C29_AssignedDatesMoveForward ==
    IsCascade =>
        \A k \in DOMAIN last.proposed :
            /\ last.proposed[k].new_date > last.today_value
            /\ last.proposed[k].new_date >= last.pre[last.proposed[k].id].session_date
            /\ k > 1 => last.proposed[k].new_date >= last.proposed[k - 1].new_date

C29_Witness ==
    /\ CascadeOk
    /\ Len(last.proposed) >= 2
    /\ \E k \in DOMAIN last.proposed : last.proposed[k].previous_date < last.today_value
    /\ \E k \in DOMAIN last.proposed : sessions[last.proposed[k].id].session_date > last.today_value + 1

\* C30: a cascade changes nothing but the session_date of the sessions of its batch, which
\* are exactly the caller's scheduled sessions of the anchor's learner dated from
\* min(anchor date, today) onward; every other row is left as it was
C30_OnlyDatesOfTheBatch ==
    IsCascade =>
        /\ DOMAIN sessions = DOMAIN last.pre
        /\ (AnchorFound /\ UpcomingOfAnchor # {}) => Range(last.batch) = UpcomingOfAnchor
        /\ \A id \in DOMAIN sessions :
              IF AnchorFound /\ id \in UpcomingOfAnchor
              THEN [sessions[id] EXCEPT !.session_date = last.pre[id].session_date] = last.pre[id]
              ELSE sessions[id] = last.pre[id]

C30_Witness ==
    /\ CascadeOk
    /\ \E id \in DOMAIN sessions : sessions[id].session_date # last.pre[id].session_date
    /\ \E id \in DOMAIN sessions :
          /\ last.pre[id].therapist_id = last.therapist_id
          /\ last.pre[id].child_id = last.pre[last.session_id].child_id
          /\ last.pre[id].status # SCHEDULED
    /\ \E id \in DOMAIN sessions : last.pre[id].therapist_id # last.therapist_id

(***************************************************************************)
(* Further properties of the status operations                             *)
(***************************************************************************)
\* C27: complete_session on a session that is absent or not ongoing fails or reports
\* not-found, changes neither status nor notes and does not call the assessment hook; notes
\* are stored only with a successful ongoing -> completed transition and only when given
C27_CompleteOnlyFromOngoing ==
    last.op = "complete_session" =>
        /\ (last.session_id \notin DOMAIN last.pre \/ last.pre[last.session_id].status # ONGOING) =>
              /\ last.outcome \in {"not_found", "error"}
              /\ sessions = last.pre
              /\ ~last.hook_invoked
        /\ \A id \in DOMAIN sessions :
              sessions[id].therapist_notes # last.pre[id].therapist_notes =>
                  /\ id = last.session_id
                  /\ last.pre[id].status = ONGOING
                  /\ sessions[id].status = COMPLETED
                  /\ last.therapist_notes # NoNotes
                  /\ sessions[id].therapist_notes = last.therapist_notes

C27_Witness ==
    /\ last.op = "complete_session"
    /\ last.session_id \in DOMAIN last.pre
    /\ last.pre[last.session_id].status = SCHEDULED
    /\ last.therapist_notes # NoNotes
    /\ last.outcome = "error"
    /\ sessions = last.pre

\* C28: under every interleaving of concurrent status requests each change of a stored
\* status is a transition of the table
C28_EveryStoredChangeIsATransition ==
    [][\A id \in DOMAIN sessions :
          (id \in DOMAIN sessions' /\ sessions'[id].status # sessions[id].status) =>
              sessions'[id].status \in ValidTransitions(sessions[id].status)]_vars

(***************************************************************************)
(* Properties of the reminder scheduling                                   *)
(***************************************************************************)
\* the caller's scheduled sessions of today that start after the time of the call
StillToCome ==
    {id \in DOMAIN last.pre :
        /\ last.pre[id].therapist_id = last.therapist_id
        /\ last.pre[id].session_date = today
        /\ last.pre[id].status = SCHEDULED
        /\ SecondsOf(last.pre[id].start_time) > last.now}

\* the first of them by start time
FirstToCome ==
    CHOOSE id \in StillToCome :
        \A other \in StillToCome : last.pre[id].start_time <= last.pre[other].start_time

\* C26: schedule_session_notifications_for_day reports success and changes no session; when
\* the first scheduled session of today that is still to come starts more than 5 minutes
\* after the call, it records one reminder at start - 5 minutes and reports
\* scheduled_count = 1, and otherwise it records nothing and reports 0
C26_ReminderFiveMinutesBefore ==
    last.op = "schedule_session_notifications_for_day" =>
        /\ last.success
        /\ sessions = last.pre
        /\ IF StillToCome # {} /\ SecondsOf(last.pre[FirstToCome].start_time) - last.now > 300
           THEN /\ last.scheduled_count = 1
                /\ last.recorded =
                      {[session_id |-> FirstToCome,
                        notification_time |-> SecondsOf(last.pre[FirstToCome].start_time) - 300]}
           ELSE /\ last.scheduled_count = 0
                /\ last.recorded = {}

====
